---------------------------- MODULE Spec2Model ----------------------------
(***************************************************************************)
(* A model of solutil's VTV rollout forecaster (src/solutil/forecasts.py). *)
(*                                                                         *)
(* Time.  A timestamp of a timezone-aware index is its UTC hour number,    *)
(* counted from 2022-01-01 00:00 UTC; a calendar date is its day number,   *)
(* counted from 2022-01-01 (a Saturday, weekday 5).  The local fields of   *)
(* a timestamp (year, day of year, month, day, hour, weekday) are those of *)
(* the index's timezone: "Etc/GMT-1" is UTC+1 all year, "Europe/Zurich"    *)
(* and "CET" are UTC+1 with the EU summer time rule.                       *)
(*                                                                         *)
(* Numbers.  Observed values are non-negative integers; a mean is kept as  *)
(* the reduced fraction <<numerator, denominator>>, so that a mean, a sum  *)
(* and a count are three different things.  Floating point rounding is not *)
(* modelled.                                                               *)
(***************************************************************************)
EXTENDS Integers, Sequences, FiniteSets, TLC

----------------------------------------------------------------------------
(* Bounds of the model. *)

\* Greatest number of rows of a frame given to evaluate_forecast.
MaxEvalRows == 3

\* The longest span of create_prog_strawman's arguments, in whole days.
MaxSpanDays == 2

\* The widest window of the interval conditions checked on their own.
MaxEncWindow == 45

\* Number of calendar days of the daily series fed to the day-type steps.
MaxDtDays == 3

\* Largest number of calendar days of the historical series.
MaxHistDays == 2

----------------------------------------------------------------------------
(* Calendar arithmetic (what datetime / pandas compute for the code). *)

Abs(x) == IF x < 0 THEN 0 - x ELSE x

IsLeap(y) == (y % 4 = 0 /\ y % 100 # 0) \/ y % 400 = 0

DaysInYear(y) == IF IsLeap(y) THEN 366 ELSE 365

RECURSIVE YearFrom(_, _)
\* The year of day number d, searching from year y whose 1 January is day 0
\* of the count d.
YearFrom(d, y) == IF d < DaysInYear(y) THEN y ELSE YearFrom(d - DaysInYear(y), y + 1)

RECURSIVE DoyFrom(_, _)
DoyFrom(d, y) == IF d < DaysInYear(y) THEN d + 1 ELSE DoyFrom(d - DaysInYear(y), y + 1)

\* time.year of a date (day number from 2022-01-01).
YearOf(date) == YearFrom(date, 2022)

\* (time - datetime(time.year - 1, 12, 31)).days: the day of the year, 1-based.
DayOfYear(date) == DoyFrom(date, 2022)

\* Days of year y before the first day of month m.
DaysBeforeMonth(y, m) ==
    <<0, 31, 59, 90, 120, 151, 181, 212, 243, 273, 304, 334>>[m]
        + (IF m > 2 /\ IsLeap(y) THEN 1 ELSE 0)

\* Days of month m of year y.
DaysInMonth(y, m) ==
    IF m = 12 THEN 31 ELSE DaysBeforeMonth(y, m + 1) - DaysBeforeMonth(y, m)

\* time.month and time.day of a date.
MonthOf(date) ==
    LET y == YearOf(date)
        doy == DayOfYear(date)
    IN  CHOOSE m \in 1 .. 12 :
            DaysBeforeMonth(y, m) < doy /\ doy <= DaysBeforeMonth(y, m) + DaysInMonth(y, m)

DayOfMonth(date) == DayOfYear(date) - DaysBeforeMonth(YearOf(date), MonthOf(date))

\* index.weekday: Monday = 0 .. Sunday = 6; 2022-01-01 was a Saturday.
Weekday(date) == (5 + date) % 7

\* Day number of the 1 January of year y.
RECURSIVE YearStart(_)
YearStart(y) == IF y <= 2022 THEN 0 ELSE YearStart(y - 1) + DaysInYear(y - 1)

\* Day number of the first day of month m of year y.
MonthStart(y, m) == YearStart(y) + DaysBeforeMonth(y, m)

\* The last Sunday of month m of year y (the EU summer time rule's days).
LastSunday(y, m) ==
    LET last == MonthStart(y, m) + DaysInMonth(y, m) - 1
    IN  last - ((Weekday(last) + 1) % 7)

\* tzinfo._dst.seconds / 3600 of a timestamp converted to CET: 1 in summer
\* time, which runs from 01:00 UTC on the last Sunday of March to 01:00 UTC on
\* the last Sunday of October, else 0.
DstOffset(t) ==
    LET y == YearOf(t \div 24)
    IN  IF LastSunday(y, 3) * 24 + 1 <= t /\ t < LastSunday(y, 10) * 24 + 1 THEN 1 ELSE 0

\* Hours a timezone's wall clock is ahead of UTC at timestamp t.
UtcOffset(tz, t) == IF tz = "Etc/GMT-1" THEN 1 ELSE 1 + DstOffset(t)

\* index.date and index.hour of a timestamp of an index in timezone tz.
LocalDate(tz, t) == (t + UtcOffset(tz, t)) \div 24

LocalHour(tz, t) == (t + UtcOffset(tz, t)) % 24

----------------------------------------------------------------------------
(* get_forecast_inputs: the calendar features of one index. *)

\* daytype_array[holiday_array] = 16
HolidayCode == 16

\* daytype_array[preholiday_array & (weekday_array == 0)] = 10
PreHolidayCode == 10

\* daytype_array[postholiday_array & (weekday_array == 4)] = 14
PostHolidayCode == 14

\* abs(day of year - 183)
EncCentre == 183

\* index_offset = index - timedelta(days=91)
EncShiftDays == 91

\* date_helper_float = date_helper + hours / 25
HourDivisor == 25

\* arr[mask] = val on numpy arrays: every masked position gets val.
AssignMasked(arr, mask, val) ==
    [i \in DOMAIN arr |-> IF mask[i] THEN val ELSE arr[i]]

\* index.weekday.array of the dates of an index.
WeekdayArray(dates) == [i \in DOMAIN dates |-> Weekday(dates[i])]

\* pd.array([date_in in holiday_sg for date_in in index.date])
HolidayArray(dates, hol) == [i \in DOMAIN dates |-> dates[i] \in hol]

\* A variant of the membership array that looks at the date of the row
\* before instead of the day before.
PreholidayArrayByRow(dates, hol) ==
    [i \in DOMAIN dates |-> i > 1 /\ dates[i - 1] \in hol]

\* pd.array([date_in in holiday_sg for date_in in (index.date - timedelta(days=1))])
PreholidayArray(dates, hol) == [i \in DOMAIN dates |-> (dates[i] - 1) \in hol]

\* pd.array([date_in in holiday_sg for date_in in (index.date + timedelta(days=1))])
PostholidayArray(dates, hol) == [i \in DOMAIN dates |-> (dates[i] + 1) \in hol]

\* preholiday_array & (weekday_array == 0)
PreMask(dates, hol) ==
    [i \in DOMAIN dates |-> PreholidayArray(dates, hol)[i] /\ WeekdayArray(dates)[i] = 0]

\* postholiday_array & (weekday_array == 4)
PostMask(dates, hol) ==
    [i \in DOMAIN dates |-> PostholidayArray(dates, hol)[i] /\ WeekdayArray(dates)[i] = 4]

\* The day-type column: the weekday, overwritten by the three masked
\* assignments in the order the code makes them.
DayTypeArray(dates, hol) ==
    AssignMasked(
        AssignMasked(
            AssignMasked(WeekdayArray(dates), HolidayArray(dates, hol), HolidayCode),
            PreMask(dates, hol), PreHolidayCode),
        PostMask(dates, hol), PostHolidayCode)

\* date_enc1 of a local date.
DateEnc1(date) == Abs(DayOfYear(date) - EncCentre)

\* A variant of date_enc2 without the shift of the date.
DateEnc2Unshifted(date) == Abs(DayOfYear(date) - EncCentre)

\* date_enc2 of a local date: the same encoding of the date 91 days earlier.
DateEnc2(date) == Abs(DayOfYear(date - EncShiftDays) - EncCentre)

\* date_helper = year * 10000 + month * 100 + day
DateHelper(date) == YearOf(date) * 10000 + MonthOf(date) * 100 + DayOfMonth(date)

\* One row of the frame get_forecast_inputs returns for timestamp t of an
\* hourly index in timezone tz, with observed value val and day-type dt.
\* date_helper_float is kept times 25, so that it stays an integer.
InputRow(tz, t, val, dt) ==
    LET date == LocalDate(tz, t)
        hour == LocalHour(tz, t)
        date_helper == DateHelper(date)
    IN  [ data              |-> val,
          date_enc1         |-> DateEnc1(date),
          date_enc2         |-> DateEnc2(date),
          daytype           |-> dt,
          summertime_offset |-> DstOffset(t),
          date_helper       |-> date_helper,
          date_helper_float |-> date_helper * HourDivisor + hour,
          hours             |-> hour ]

\* get_forecast_inputs(data_input) for an hourly series: index is the
\* sequence of its timestamps, values the sequence of its values.
get_forecast_inputs(tz, index, values, hol) ==
    LET dates == [i \in DOMAIN index |-> LocalDate(tz, index[i])]
        dt    == DayTypeArray(dates, hol)
    IN  [i \in DOMAIN index |-> InputRow(tz, index[i], values[i], dt[i])]

\* The timestamp at which the wall clock of Europe/Zurich shows the given
\* date and hour (one that exists and is not repeated).
LocalizeZurich(date, hour) ==
    LET wall == date * 24 + hour
    IN  CHOOSE t \in {wall - 2, wall - 1} : t + UtcOffset("Europe/Zurich", t) = wall

\* create_prog_strawman: pd.date_range(start, end, inclusive='left',
\* freq='1h', tz='Europe/Zurich') and a zero for every timestamp.
StrawmanIndexInclusive(t_from, t_to) == [i \in 1 .. (t_to - t_from + 1) |-> t_from + i - 1]

StrawmanIndex(t_from, t_to) == [i \in 1 .. (t_to - t_from) |-> t_from + i - 1]

StrawmanData(t_from, t_to) == [i \in 1 .. (t_to - t_from) |-> <<0, 1>>]

create_prog_strawman(date_from, hour_from, date_to, hour_to, hol) ==
    LET t_from == LocalizeZurich(date_from, hour_from)
        t_to   == LocalizeZurich(date_to, hour_to)
    IN  get_forecast_inputs("Europe/Zurich", StrawmanIndex(t_from, t_to),
                            StrawmanData(t_from, t_to), hol)

----------------------------------------------------------------------------
(* numpy helpers *)

\* arr[mask]: the elements of arr at the positions where mask is true, in
\* order.
RECURSIVE TakeAscending(_, _)
TakeAscending(arr, positions) ==
    IF positions = {} THEN <<>>
    ELSE LET least == CHOOSE i \in positions : \A j \in positions : i <= j
         IN  <<arr[least]>> \o TakeAscending(arr, positions \ {least})

MaskSelect(arr, mask) == TakeAscending(arr, {i \in DOMAIN arr : mask[i]})

\* sum(mask) of a boolean array: the number of true positions.
CountTrue(mask) == Cardinality({i \in DOMAIN mask : mask[i]})

\* sum(arr) of a numeric array.
RECURSIVE SumFrom(_, _)
SumFrom(arr, i) == IF i > Len(arr) THEN 0 ELSE arr[i] + SumFrom(arr, i + 1)

SumSeq(arr) == SumFrom(arr, 1)

\* A column of a frame as an array.
Column(df, col) == [i \in DOMAIN df |-> df[i][col]]

RECURSIVE Gcd(_, _)
Gcd(a, b) == IF b = 0 THEN a ELSE Gcd(b, a % b)

\* The number num / den (den > 0) as a reduced fraction.
Fraction(num, den) ==
    LET g == Gcd(num, den) IN <<num \div g, den \div g>>

\* The number 0.
Zero == Fraction(0, 1)

\* A variant of prog_data that is a view of the frame's column.
ProgDataArrayView(frame) ==
    [ values |-> [i \in DOMAIN frame |-> frame[i].data], shares |-> TRUE ]

\* prog_data = df_prog['data'].copy().to_numpy(): the values of the column,
\* in memory that the frame does not share.
ProgDataArray(frame) ==
    [ values |-> [i \in DOMAIN frame |-> frame[i].data], shares |-> FALSE ]

\* The frame after an assignment to the elements of an array made from its
\* 'data' column: the frame has the new values when it shares the array's
\* memory.
AfterArrayWrite(frame, array, values) ==
    IF array.shares
      THEN [i \in DOMAIN frame |-> [frame[i] EXCEPT !.data = values[i]]]
      ELSE frame

\* The floats inf and nan, written as the fractions 1/0 and 0/0.
Inf == <<1, 0>>

NaN == <<0, 0>>

\* A local name that is not bound yet.
Unset == <<>>

\* The outcome of an index[1] that raises an IndexError.
IndexError == <<"IndexError">>

----------------------------------------------------------------------------
(* get_vtv_forecast: the computations of its statements. *)

\* self.forecast: the defaults set by Forecaster.__init__ (the entries
\* get_vtv_forecast reads).
DefaultWindowSize == 10

DefaultExpandStep == 5

DefaultNValMin == 1

DefaultNIterMax == 4

DefaultDaytypeReplace == 0

DefaultForecast ==
    [ window_size     |-> DefaultWindowSize,
      expand_step     |-> DefaultExpandStep,
      n_val_min       |-> DefaultNValMin,
      n_iter_max      |-> DefaultNIterMax,
      daytype_replace |-> DefaultDaytypeReplace ]

\* default_params = self.forecast.copy()
DefaultParams(stored) == stored

\* params_dict = {param: kwargs.get(param, default_params[param]) ...}
ParamsDict(kw, default_params) ==
    [param \in DOMAIN default_params |->
        IF param \in DOMAIN kw THEN kw[param] ELSE default_params[param]]

\* A variant of the call that keeps the merged parameters as the stored
\* configuration.
ForecastAfterCallStores(kw, stored) == ParamsDict(kw, stored)

\* self.forecast after the parameters of a call have been merged: the merge
\* reads a copy of the stored configuration and builds a new dict, nothing
\* is assigned to self.forecast or to its entries.
ForecastAfterCall(kw, stored) == stored

\* if (daytype_unique[i_day] in [10, 14, 16]) and (dayshift == 0):
FallbackDayTypes == {10, 14, 16}

\*     window_size = 10
FallbackWindowSize == 10

\*     dayshift = 10
FallbackDayshift == 10

\* prog_dst_offset[(prog_datehelper == date_day) & (prog_hours == 3)]
DstSampleHour == 3

\* np.where(hist_hours_dst_adj < 0, 23, hist_hours_dst_adj)
WrapHour == 23

\* A variant of the marker that marks the first row of every calendar day.
UniqueIndexFirstRow(df) ==
    [i \in DOMAIN df |-> i = 1 \/ df[i].date_helper # df[i - 1].date_helper]

\* unique_index = (np.mod(prog_datehelper_float, 1) == 0)
UniqueIndex(df) == [i \in DOMAIN df |-> df[i].date_helper_float % HourDivisor = 0]

\* prog_datehelper_unique, enc1_unique, enc2_unique, daytype_unique
UniqueColumn(df, col) == MaskSelect(Column(df, col), UniqueIndex(df))

\* A variant of the match attempt with a slip of sign in the lower bound on
\* the first encoding.
DayIndexSignSlip(hist, daytype, enc1, enc2, window, shift) ==
    [i \in DOMAIN hist |->
        /\ hist[i].daytype = daytype - shift
        /\ hist[i].date_enc1 <= enc1 + window
        /\ hist[i].date_enc1 >= enc1 + window
        /\ hist[i].date_enc2 <= enc2 + window
        /\ hist[i].date_enc2 >= enc2 - window]

\* A variant of the match attempt whose upper bound on the first encoding is
\* strict: a row at exactly enc1 + window is left out.
DayIndexStrictUpper(hist, daytype, enc1, enc2, window, shift) ==
    [i \in DOMAIN hist |->
        /\ hist[i].daytype = daytype - shift
        /\ hist[i].date_enc1 < enc1 + window
        /\ hist[i].date_enc1 >= enc1 - window
        /\ hist[i].date_enc2 <= enc2 + window
        /\ hist[i].date_enc2 >= enc2 - window]

\* The boolean mask day_index of one match attempt.
DayIndex(hist, daytype, enc1, enc2, window, shift) ==
    [i \in DOMAIN hist |->
        /\ hist[i].daytype = daytype - shift
        /\ hist[i].date_enc1 <= enc1 + window
        /\ hist[i].date_enc1 >= enc1 - window
        /\ hist[i].date_enc2 <= enc2 + window
        /\ hist[i].date_enc2 >= enc2 - window]

\* n_days = sum(day_index)
CountDays(day_idx) == CountTrue(day_idx)

\* A variant of the loop condition that lets one attempt too many through.
WhileCondOneMore(m, cfg) == m.n_days < cfg.n_val_min /\ m.n_iter <= cfg.n_iter_max

\* A variant of the loop condition without the limit on the iterations.
WhileCondUnlimited(m, cfg) == m.n_days < cfg.n_val_min

\* The matcher's loop condition: (n_days < n_val_min) and (n_iter < n_iter_max)
WhileCond(m, cfg) == m.n_days < cfg.n_val_min /\ m.n_iter < cfg.n_iter_max

\* A variant of the replacement's condition without the test of the dayshift.
TakesFallbackAnyShift(iter, daytype, shift, cfg) ==
    iter >= cfg.n_iter_max /\ daytype \in FallbackDayTypes

\* The condition of the day-type replacement after an attempt that left the
\* iteration counter at iter.
TakesFallback(iter, daytype, shift, cfg) ==
    iter >= cfg.n_iter_max /\ daytype \in FallbackDayTypes /\ shift = 0

\* A variant of the start of a day that keeps the count of matched rows.
DayStartKeepsCount(cfg, old) ==
    [ n_days        |-> old.n_days,
      n_iter        |-> 0,
      n_expand_iter |-> 0,
      window_size   |-> cfg.window_size,
      dayshift      |-> cfg.daytype_replace,
      day_index     |-> old.day_index,
      bound         |-> old.bound ]

\* The locals of the matcher as a forecast day starts.
DayStart(cfg, old) ==
    [ n_days        |-> 0,
      n_iter        |-> 0,
      n_expand_iter |-> 0,
      window_size   |-> cfg.window_size,
      dayshift      |-> cfg.daytype_replace,
      day_index     |-> old.day_index,
      bound         |-> old.bound ]

\* A variant of the loop body in which the day-type replacement also
\* restarts the count of window expansions.
LoopBodyCountsPhase(m, cfg, hist, daytype, enc1, enc2) ==
    LET idx  == DayIndex(hist, daytype, enc1, enc2, m.window_size, m.dayshift)
        iter == m.n_iter + 1
        fb   == TakesFallback(iter, daytype, m.dayshift, cfg)
    IN  [ n_days        |-> CountDays(idx),
          n_iter        |-> IF fb THEN 0 ELSE iter,
          n_expand_iter |-> IF fb THEN 0 ELSE m.n_expand_iter + 1,
          window_size   |-> IF fb THEN FallbackWindowSize ELSE m.window_size + cfg.expand_step,
          dayshift      |-> IF fb THEN FallbackDayshift ELSE m.dayshift,
          day_index     |-> idx,
          bound         |-> TRUE ]

\* One pass through the body of the while loop: a match attempt, the
\* counters, and the day-type replacement.
LoopBody(m, cfg, hist, daytype, enc1, enc2) ==
    LET idx  == DayIndex(hist, daytype, enc1, enc2, m.window_size, m.dayshift)
        iter == m.n_iter + 1
        fb   == TakesFallback(iter, daytype, m.dayshift, cfg)
    IN  [ n_days        |-> CountDays(idx),
          n_iter        |-> IF fb THEN 0 ELSE iter,
          n_expand_iter |-> m.n_expand_iter + 1,
          window_size   |-> IF fb THEN FallbackWindowSize ELSE m.window_size + cfg.expand_step,
          dayshift      |-> IF fb THEN FallbackDayshift ELSE m.dayshift,
          day_index     |-> idx,
          bound         |-> TRUE ]

\* The while loop as a whole: the matcher's locals when the loop has ended.
RECURSIVE RunMatcher(_, _, _, _, _, _)
RunMatcher(m, cfg, hist, daytype, enc1, enc2) ==
    IF WhileCond(m, cfg)
    THEN RunMatcher(LoopBody(m, cfg, hist, daytype, enc1, enc2), cfg, hist, daytype, enc1, enc2)
    ELSE m

\* a - b on numpy arrays of one dimension, with broadcasting: an array of
\* one element stretches to the other's length, other lengths must agree.
CanBroadcast(a, b) == Len(a) = Len(b) \/ Len(a) = 1 \/ Len(b) = 1

BroadcastLen(a, b) == IF Len(a) = 1 THEN Len(b) ELSE Len(a)

BroadcastSub(a, b) ==
    [k \in 1 .. BroadcastLen(a, b) |->
        a[IF Len(a) = 1 THEN 1 ELSE k] - b[IF Len(b) = 1 THEN 1 ELSE k]]

\* A variant of the day's hours that lists every hour of the day once.
ProgHoursSelDistinct(df, date_day) ==
    LET hrs == { df[i].hours : i \in { j \in DOMAIN df : df[j].date_helper = date_day } }
    IN  [k \in 1 .. Cardinality(hrs) |->
            CHOOSE h \in hrs : Cardinality({ g \in hrs : g < h }) = k - 1]

\* prog_hours[prog_datehelper == date_day]
ProgHoursSel(df, date_day) ==
    MaskSelect(Column(df, "hours"), [i \in DOMAIN df |-> df[i].date_helper = date_day])

\* prog_dst_offset[(prog_datehelper == date_day) & (prog_hours == 3)]
ProgDstOffsetSel(df, date_day) ==
    MaskSelect(Column(df, "summertime_offset"),
               [i \in DOMAIN df |-> df[i].date_helper = date_day
                                    /\ df[i].hours = DstSampleHour])

\* A variant of the wrap that leaves negative hours as they are.
WrapNegativeNone(arr) == arr

\* np.where(arr < 0, 23, arr)
WrapNegative(arr) == [k \in DOMAIN arr |-> IF arr[k] < 0 THEN WrapHour ELSE arr[k]]

\* Whether the statements computing the dst-adjusted hours raise a
\* ValueError (operands could not be broadcast together).
DstAdjustRaises(hist, day_idx, prog_offset_sel) ==
    LET off == MaskSelect(Column(hist, "summertime_offset"), day_idx)
        hrs == MaskSelect(Column(hist, "hours"), day_idx)
    IN  \/ ~CanBroadcast(off, prog_offset_sel)
        \/ ~CanBroadcast(hrs, BroadcastSub(off, prog_offset_sel))

\* hist_hours_dst_adj
HistHoursDstAdj(hist, day_idx, prog_offset_sel) ==
    LET off == MaskSelect(Column(hist, "summertime_offset"), day_idx)
        hrs == MaskSelect(Column(hist, "hours"), day_idx)
    IN  WrapNegative(BroadcastSub(hrs, BroadcastSub(off, prog_offset_sel)))

\* A variant of the hourly selection that takes the matched rows of every
\* hour.
HistDataHSelAllHours(data_sel, hours_adj, i_hour) == data_sel

\* hist_data_sel[hist_hours_dst_adj == i_hour]
HistDataHSel(data_sel, hours_adj, i_hour) ==
    MaskSelect(data_sel, [k \in DOMAIN data_sel |-> hours_adj[k] = i_hour])

\* A variant of the hourly mean that leaves out the division by the count.
MeanHourValSum(data_h_sel) == Fraction(SumSeq(data_h_sel), 1)

\* mean_hour_val = sum_hour_val / n_hour_val if n_hour_val > 0 else 0
MeanHourVal(data_h_sel) ==
    IF Len(data_h_sel) > 0 THEN Fraction(SumSeq(data_h_sel), Len(data_h_sel)) ELSE Zero

\* arr[pos] = val for a 0-based position pos of a numpy array.
SetItem(arr, pos, val) == [arr EXCEPT ![pos + 1] = val]

\* One pass of the loop over the hours of a forecast day, on the output
\* arrays and the counter out: the mean of the matched values at i_hour, and
\* the three assignments at n_forecast.  A boolean index of another length
\* than the indexed array, or a position past the end of the output arrays,
\* raises an IndexError, which ends the loop.
HourBody(out, i_hour, data_sel, hours_adj, n_expand) ==
    IF out.raised # "none" THEN out
    ELSE IF Len(hours_adj) # Len(data_sel) \/ out.n_forecast >= Len(out.prog_data)
    THEN [out EXCEPT !.raised = "IndexError"]
    ELSE LET hist_data_h_sel == HistDataHSel(data_sel, hours_adj, i_hour)
         IN  [ prog_data  |-> SetItem(out.prog_data, out.n_forecast, MeanHourVal(hist_data_h_sel)),
               prog_nval  |-> SetItem(out.prog_nval, out.n_forecast, Len(hist_data_h_sel)),
               prog_niter |-> SetItem(out.prog_niter, out.n_forecast, n_expand),
               n_forecast |-> out.n_forecast + 1,
               raised     |-> out.raised ]

\* for i_hour in prog_hours_sel: the passes from position k of prog_hours_sel on.
RECURSIVE HourLoopFrom(_, _, _, _, _, _)
HourLoopFrom(out, hours_sel, k, data_sel, hours_adj, n_expand) ==
    IF k > Len(hours_sel) THEN out
    ELSE HourLoopFrom(HourBody(out, hours_sel[k], data_sel, hours_adj, n_expand),
                      hours_sel, k + 1, data_sel, hours_adj, n_expand)

HourLoop(out, hours_sel, data_sel, hours_adj, n_expand) ==
    HourLoopFrom(out, hours_sel, 1, data_sel, hours_adj, n_expand)

----------------------------------------------------------------------------
VARIABLES
    holiday_sg,          \* holidays.CH(prov='SG'): the set of holiday dates
    \* get_forecast_inputs, the day-type steps
    dt_pc,               \* position in get_forecast_inputs' day-type steps
    dt_dates,            \* data_input.index.date of the series being enriched
    weekday_array,       \* weekday_array
    daytype_array,       \* daytype_array
    holiday_array,       \* holiday_array
    preholiday_array,    \* preholiday_array
    postholiday_array,   \* postholiday_array
    \* get_vtv_forecast
    self_forecast,       \* self.forecast, the Forecaster's stored configuration
    kwargs,              \* **kwargs of the call of get_vtv_forecast
    overridden,          \* whether an earlier call on this Forecaster passed overrides
    pc,                  \* position in get_vtv_forecast
    raised,              \* the exception that ended the call, or "none"
    df_hist,             \* the enriched historical frame
    df_prog,             \* the enriched forecast frame
    params_dict,         \* params_dict (the entries that are read)
    prog_datehelper_unique,  \* prog_datehelper_unique
    enc1_unique,         \* enc1_unique
    enc2_unique,         \* enc2_unique
    daytype_unique,      \* daytype_unique
    prog_data,           \* prog_data
    prog_nval,           \* prog_nval
    prog_niter,          \* prog_niter
    n_forecast,          \* n_forecast
    i_day,               \* i_day, the position of the for loop over days
    n_days,              \* n_days
    n_iter,              \* n_iter
    n_expand_iter,       \* n_expand_iter
    window_size,         \* window_size
    dayshift,            \* dayshift
    day_index,           \* day_index
    day_index_bound,     \* whether the local name day_index is bound yet
    prog_hours_sel,      \* prog_hours_sel
    hist_hours_dst_adj,  \* hist_hours_dst_adj
    hist_data_sel,       \* hist_data_sel
    df_out,              \* the returned frame: its forecast, nval and n_iter columns
    \* history, for stating properties
    attempts,            \* the match attempts made for the current forecast day
    day_first,           \* n_forecast as the current day's hour loop began
    df_hist_0,           \* df_hist as it was when get_vtv_forecast was called
    df_prog_0,           \* df_prog as it was when get_vtv_forecast was called
    \* evaluate_forecast
    ev_pc,               \* position in evaluate_forecast
    ev_hist,             \* df_hist of evaluate_forecast: index and 'data'
    ev_forecast,         \* df_forecast of evaluate_forecast: index and 'forecast'
    freq_hist,           \* freq_hist
    freq_prog,           \* freq_prog
    hist_work,           \* hist_work
    year_dict,           \* year_dict
    ev_raised,           \* the exception that ended evaluate_forecast, or "none"
    output,              \* the returned dict, or "none"
    \* create_prog_strawman
    sm_pc,               \* position in create_prog_strawman
    date_from,           \* date_from: <<date, hour>> on the wall clock, no timezone
    date_to,             \* date_to: <<date, hour>> on the wall clock, no timezone
    date_range,          \* date_range: the timestamps of the index
    dummy_data,          \* dummy_data
    strawman,            \* the returned series, or <<>>
    sm_raised,           \* the exception that ended create_prog_strawman, or "none"
    \* the seasonal encodings and the matcher's interval conditions
    enc_pc,              \* position: "encode", "compare", "done", or "idle"
    enc_hist_date,       \* the date of a historical row
    enc_prog_date,       \* the date of a forecast day
    enc_window,          \* window_size of the attempt
    enc_hist,            \* the historical row's date_enc1 and date_enc2
    enc_prog,            \* the forecast day's date_enc1 and date_enc2
    enc_match            \* whether the row meets the four interval conditions

dtVars == <<dt_pc, dt_dates, weekday_array, daytype_array,
            holiday_array, preholiday_array, postholiday_array>>

inputVars == <<df_hist, df_prog, df_hist_0, df_prog_0>>

matcherVars == <<n_days, n_iter, n_expand_iter, window_size, dayshift,
                 day_index, day_index_bound>>

outVars == <<prog_data, prog_nval, prog_niter, n_forecast>>

uniqueVars == <<prog_datehelper_unique, enc1_unique, enc2_unique, daytype_unique>>

selVars == <<prog_hours_sel, hist_hours_dst_adj, hist_data_sel>>

callVars == <<kwargs, overridden>>

fcVars == <<self_forecast, callVars, pc, raised, inputVars, params_dict, uniqueVars, outVars, i_day, matcherVars,
            selVars, df_out, attempts, day_first>>

evVars == <<ev_pc, ev_hist, ev_forecast, freq_hist, freq_prog, hist_work, year_dict,
            ev_raised, output>>

smVars == <<sm_pc, date_from, date_to, date_range, dummy_data, strawman, sm_raised>>

encVars == <<enc_pc, enc_hist_date, enc_prog_date, enc_window, enc_hist, enc_prog, enc_match>>

vars == <<holiday_sg, dtVars, fcVars, evVars, smVars, encVars>>

\* The variables of the encodings while they are not modelled on their own.
EncIdle ==
    /\ enc_pc = "idle"
    /\ enc_hist_date = 0
    /\ enc_prog_date = 0
    /\ enc_window = 0
    /\ enc_hist = <<>>
    /\ enc_prog = <<>>
    /\ enc_match = FALSE

\* The variables of create_prog_strawman while no call of it is modelled.
SmIdle ==
    /\ sm_pc = "idle"
    /\ date_from = <<>>
    /\ date_to = <<>>
    /\ date_range = <<>>
    /\ dummy_data = <<>>
    /\ strawman = <<>>
    /\ sm_raised = "none"

\* The variables of evaluate_forecast while no call of it is modelled.
EvIdle ==
    /\ ev_pc = "idle"
    /\ ev_hist = <<>>
    /\ ev_forecast = <<>>
    /\ freq_hist = Unset
    /\ freq_prog = Unset
    /\ hist_work = Unset
    /\ year_dict = <<>>
    /\ ev_raised = "none"
    /\ output = "none"

----------------------------------------------------------------------------
(* Specification SpecDT: get_forecast_inputs' day-type steps on a daily     *)
(* series of MaxDtDays consecutive dates, under any holiday calendar of    *)
(* those dates and their neighbours.                                       *)

\* The forecaster's variables while no call of get_vtv_forecast is modelled.
FcIdle ==
    /\ self_forecast = DefaultForecast
    /\ kwargs = <<>>
    /\ overridden = FALSE
    /\ pc = "idle"
    /\ raised = "none"
    /\ df_hist = <<>>
    /\ df_prog = <<>>
    /\ df_hist_0 = <<>>
    /\ df_prog_0 = <<>>
    /\ params_dict = DefaultForecast
    /\ prog_datehelper_unique = <<>>
    /\ enc1_unique = <<>>
    /\ enc2_unique = <<>>
    /\ daytype_unique = <<>>
    /\ prog_data = <<>>
    /\ prog_nval = <<>>
    /\ prog_niter = <<>>
    /\ n_forecast = 0
    /\ i_day = 0
    /\ n_days = 0
    /\ n_iter = 0
    /\ n_expand_iter = 0
    /\ window_size = 0
    /\ dayshift = 0
    /\ day_index = <<>>
    /\ day_index_bound = FALSE
    /\ prog_hours_sel = <<>>
    /\ hist_hours_dst_adj = <<>>
    /\ hist_data_sel = <<>>
    /\ df_out = <<>>
    /\ attempts = <<>>
    /\ day_first = 0

\* First dates of the daily series: the seven days from 2023-01-02, a Monday.
DtStarts == 366 .. 372

DtInit ==
    /\ \E s \in DtStarts :
          /\ dt_dates = [i \in 1 .. MaxDtDays |-> s + i - 1]
          /\ holiday_sg \in SUBSET ((s - 1) .. (s + MaxDtDays))
    /\ dt_pc = "weekday"
    /\ weekday_array = <<>>
    /\ daytype_array = <<>>
    /\ holiday_array = <<>>
    /\ preholiday_array = <<>>
    /\ postholiday_array = <<>>
    /\ FcIdle
    /\ EvIdle
    /\ SmIdle
    /\ EncIdle

\* daytype_array = index.weekday.array; weekday_array = daytype_array.copy();
\* then the three membership arrays.
DtWeekday ==
    /\ dt_pc = "weekday"
    /\ daytype_array' = WeekdayArray(dt_dates)
    /\ weekday_array' = WeekdayArray(dt_dates)
    /\ holiday_array' = HolidayArray(dt_dates, holiday_sg)
    /\ preholiday_array' = PreholidayArray(dt_dates, holiday_sg)
    /\ postholiday_array' = PostholidayArray(dt_dates, holiday_sg)
    /\ dt_pc' = "holiday"
    /\ UNCHANGED <<evVars, smVars, encVars, holiday_sg, dt_dates, fcVars>>

\* daytype_array[holiday_array] = 16
DtHoliday ==
    /\ dt_pc = "holiday"
    /\ daytype_array' = AssignMasked(daytype_array, holiday_array, HolidayCode)
    /\ dt_pc' = "preholiday"
    /\ UNCHANGED <<evVars, smVars, encVars, holiday_sg, dt_dates, weekday_array, holiday_array,
                   preholiday_array, postholiday_array, fcVars>>

\* daytype_array[preholiday_array & (weekday_array == 0)] = 10
DtPreHoliday ==
    /\ dt_pc = "preholiday"
    /\ daytype_array' = AssignMasked(daytype_array,
                            [i \in DOMAIN dt_dates |->
                                preholiday_array[i] /\ weekday_array[i] = 0],
                            PreHolidayCode)
    /\ dt_pc' = "postholiday"
    /\ UNCHANGED <<evVars, smVars, encVars, holiday_sg, dt_dates, weekday_array, holiday_array,
                   preholiday_array, postholiday_array, fcVars>>

\* daytype_array[postholiday_array & (weekday_array == 4)] = 14
DtPostHoliday ==
    /\ dt_pc = "postholiday"
    /\ daytype_array' = AssignMasked(daytype_array,
                            [i \in DOMAIN dt_dates |->
                                postholiday_array[i] /\ weekday_array[i] = 4],
                            PostHolidayCode)
    /\ dt_pc' = "done"
    /\ UNCHANGED <<evVars, smVars, encVars, holiday_sg, dt_dates, weekday_array, holiday_array,
                   preholiday_array, postholiday_array, fcVars>>

DtNext == DtWeekday \/ DtHoliday \/ DtPreHoliday \/ DtPostHoliday

SpecDT == DtInit /\ [][DtNext]_vars

----------------------------------------------------------------------------
(* Specification Spec: one call of get_vtv_forecast on the frames that     *)
(* rollout_lastgang prepares: an hourly historical series in Etc/GMT-1 and *)
(* a strawman in Europe/Zurich, both enriched by get_forecast_inputs.      *)

\* The day number of a calendar date.
Date(y, m, d) == MonthStart(y, m) + d - 1

\* Holiday calendars: none; Easter Monday of 2023 and 2024; Easter Sunday
\* and Easter Monday of both years.
HolidayCalendars ==
    { {},
      {Date(2023, 4, 10), Date(2024, 4, 1)},
      {Date(2023, 4, 9), Date(2023, 4, 10), Date(2024, 3, 31), Date(2024, 4, 1)} }

\* The days a historical series is made of: two Mondays around the
\* forecast's season (one of them still in winter time), a Tuesday, Easter
\* Sunday and Easter Monday, a Monday in autumn whose date_enc1 is that
\* of spring, and the last Sunday of summer time.
HistCatalogue ==
    { Date(2023, 3, 20), Date(2023, 4, 4), Date(2023, 4, 9),
      Date(2023, 4, 10), Date(2023, 4, 17), Date(2023, 10, 2),
      Date(2023, 10, 22) }

HistDaySets == {S \in SUBSET HistCatalogue : Cardinality(S) <= MaxHistDays}

\* The elements of a set of numbers in ascending order.
RECURSIVE Ascending(_)
Ascending(S) ==
    IF S = {} THEN <<>>
    ELSE LET least == CHOOSE x \in S : \A y \in S : x <= y
         IN  <<least>> \o Ascending(S \ {least})

\* The index of the hourly series in Etc/GMT-1 that covers the given days,
\* 24 rows a day.
HistIndex(days) ==
    LET d == Ascending(days)
    IN  [i \in 1 .. (24 * Len(d)) |-> d[((i - 1) \div 24) + 1] * 24 + ((i - 1) % 24) - 1]

\* The observed load at a timestamp: the day of the month plus the hour
\* in the first half of the year, a flat load of the day of the month in the
\* second.
HistValues(index) ==
    [i \in DOMAIN index |->
        LET date == LocalDate("Etc/GMT-1", index[i])
        IN  IF MonthOf(date) <= 6
              THEN DayOfMonth(date) + LocalHour("Etc/GMT-1", index[i])
              ELSE DayOfMonth(date)]

\* The first forecast day: Monday 2024-04-01.
ProgStart == Date(2024, 4, 1)

\* Forecast horizons <<from date, from hour, to date, to hour>>: two whole
\* days; a horizon that starts late on the day before and ends in the
\* morning of its last day; one that ends before 03:00 on its last day;
\* the Sunday of 23 hours on which summer time starts; the Sunday of 25
\* hours on which it ends.
Horizons ==
    { <<ProgStart, 0, ProgStart + 2, 0>>,
      <<ProgStart - 1, 22, ProgStart + 1, 4>>,
      <<ProgStart, 0, ProgStart + 1, 2>>,
      <<Date(2024, 3, 31), 0, Date(2024, 4, 1), 0>>,
      <<Date(2024, 10, 27), 0, Date(2024, 10, 28), 0>> }

\* A keyword argument that is either absent or has one of the values.
Optional(name, values) == {<<>>} \cup {name :> v : v \in values}

\* The keyword arguments of the call: overrides of the window, the minimum
\* and the number of iterations in every combination, and calls that make
\* no match attempt at all or start with a day-type shift.
KwargSets ==
    { a @@ b @@ c : a \in Optional("window_size", {13}),
                    b \in Optional("n_val_min", {25}),
                    c \in Optional("n_iter_max", {1}) }
    \cup { "n_val_min" :> 0, "n_iter_max" :> 0 }
    \cup { a @@ ("daytype_replace" :> 10) : a \in Optional("n_iter_max", {1}) }

InitOn(day_sets) ==
    /\ holiday_sg \in HolidayCalendars
    /\ dt_pc = "idle"
    /\ dt_dates = <<>>
    /\ weekday_array = <<>>
    /\ daytype_array = <<>>
    /\ holiday_array = <<>>
    /\ preholiday_array = <<>>
    /\ postholiday_array = <<>>
    /\ self_forecast = DefaultForecast
    /\ kwargs = <<>>
    /\ overridden = FALSE
    /\ \E days \in day_sets :
          df_hist = get_forecast_inputs("Etc/GMT-1", HistIndex(days),
                                        HistValues(HistIndex(days)), holiday_sg)
    /\ \E h \in Horizons :
          df_prog = create_prog_strawman(h[1], h[2], h[3], h[4], holiday_sg)
    /\ df_hist_0 = df_hist
    /\ df_prog_0 = df_prog
    /\ pc = "call"
    /\ raised = "none"
    /\ params_dict = DefaultForecast
    /\ prog_datehelper_unique = <<>>
    /\ enc1_unique = <<>>
    /\ enc2_unique = <<>>
    /\ daytype_unique = <<>>
    /\ prog_data = <<>>
    /\ prog_nval = <<>>
    /\ prog_niter = <<>>
    /\ n_forecast = 0
    /\ i_day = 0
    /\ n_days = 0
    /\ n_iter = 0
    /\ n_expand_iter = 0
    /\ window_size = 0
    /\ dayshift = 0
    /\ day_index = <<>>
    /\ day_index_bound = FALSE
    /\ prog_hours_sel = <<>>
    /\ hist_hours_dst_adj = <<>>
    /\ hist_data_sel = <<>>
    /\ df_out = <<>>
    /\ attempts = <<>>
    /\ day_first = 0
    /\ EvIdle
    /\ SmIdle
    /\ EncIdle

Init == InitOn(HistDaySets)

\* date_day, the forecast day the for loop is at.
date_day == prog_datehelper_unique[i_day + 1]

\* The matcher's locals as one record.
Matcher ==
    [ n_days        |-> n_days,
      n_iter        |-> n_iter,
      n_expand_iter |-> n_expand_iter,
      window_size   |-> window_size,
      dayshift      |-> dayshift,
      day_index     |-> day_index,
      bound         |-> day_index_bound ]

SetMatcher(m) ==
    /\ n_days' = m.n_days
    /\ n_iter' = m.n_iter
    /\ n_expand_iter' = m.n_expand_iter
    /\ window_size' = m.window_size
    /\ dayshift' = m.dayshift
    /\ day_index' = m.day_index
    /\ day_index_bound' = m.bound

\* The call, up to the for loop: the parameters are merged from the keyword
\* arguments and the stored defaults, the output arrays are made.
Call ==
    /\ pc = "call"
    /\ \E kw \in KwargSets :
          /\ kwargs' = kw
          /\ params_dict' = ParamsDict(kw, DefaultParams(self_forecast))
          /\ self_forecast' = ForecastAfterCall(kw, self_forecast)
    /\ overridden' = overridden
    /\ prog_datehelper_unique' = UniqueColumn(df_prog, "date_helper")
    /\ enc1_unique' = UniqueColumn(df_prog, "date_enc1")
    /\ enc2_unique' = UniqueColumn(df_prog, "date_enc2")
    /\ daytype_unique' = UniqueColumn(df_prog, "daytype")
    /\ prog_data' = ProgDataArray(df_prog).values
    /\ prog_nval' = [i \in DOMAIN df_prog |-> 0]
    /\ prog_niter' = [i \in DOMAIN df_prog |-> 0]
    /\ n_forecast' = 0
    /\ i_day' = 0
    /\ pc' = "for_day"
    /\ UNCHANGED <<evVars, smVars, encVars, holiday_sg, dtVars, raised, inputVars, matcherVars,
                   selVars, df_out, attempts, day_first>>

\* for i_day, date_day in enumerate(prog_datehelper_unique): the next day's
\* locals are reset.
BeginDay ==
    /\ pc = "for_day"
    /\ i_day < Len(prog_datehelper_unique)
    /\ SetMatcher(DayStart(params_dict, Matcher))
    /\ attempts' = <<>>
    /\ pc' = "while"
    /\ UNCHANGED <<evVars, smVars, encVars, holiday_sg, dtVars, self_forecast, callVars, raised, inputVars, params_dict,
                   uniqueVars, outVars, i_day, selVars, df_out, day_first>>

\* One pass of the while loop.
Attempt ==
    /\ pc = "while"
    /\ WhileCond(Matcher, params_dict)
    /\ SetMatcher(LoopBody(Matcher, params_dict, df_hist,
                           daytype_unique[i_day + 1], enc1_unique[i_day + 1],
                           enc2_unique[i_day + 1]))
    /\ attempts' = Append(attempts,
                     [ window_size |-> window_size,
                       dayshift    |-> dayshift,
                       n_iter      |-> n_iter,
                       fallback    |-> n_iter' = 0 ])
    /\ UNCHANGED <<evVars, smVars, encVars, holiday_sg, dtVars, self_forecast, callVars, pc, raised, inputVars,
                   params_dict, uniqueVars, outVars, i_day, selVars,
                   df_out, day_first>>

\* The while loop has ended: the matched rows' hours are aligned to the
\* forecast day's summer time offset.
SelectHours ==
    /\ pc = "while"
    /\ ~WhileCond(Matcher, params_dict)
    /\ IF ~day_index_bound
         THEN /\ raised' = "UnboundLocalError"
              /\ pc' = "raised"
              /\ UNCHANGED <<selVars, day_first>>
         ELSE IF DstAdjustRaises(df_hist, day_index, ProgDstOffsetSel(df_prog, date_day))
         THEN /\ raised' = "ValueError"
              /\ pc' = "raised"
              /\ UNCHANGED <<selVars, day_first>>
         ELSE /\ prog_hours_sel' = ProgHoursSel(df_prog, date_day)
              /\ hist_hours_dst_adj' =
                    HistHoursDstAdj(df_hist, day_index, ProgDstOffsetSel(df_prog, date_day))
              /\ hist_data_sel' = MaskSelect(Column(df_hist, "data"), day_index)
              /\ day_first' = n_forecast
              /\ pc' = "for_hour"
              /\ raised' = raised
    /\ UNCHANGED <<evVars, smVars, encVars, holiday_sg, dtVars, self_forecast, callVars, inputVars, params_dict, uniqueVars, outVars,
                   i_day, matcherVars, df_out, attempts>>

\* The loop over the hours of the forecast day, and the step of the for
\* loop to the next day.
WriteHours ==
    /\ pc = "for_hour"
    /\ LET out == HourLoop([ prog_data  |-> prog_data,
                             prog_nval  |-> prog_nval,
                             prog_niter |-> prog_niter,
                             n_forecast |-> n_forecast,
                             raised     |-> raised ],
                           prog_hours_sel, hist_data_sel, hist_hours_dst_adj,
                           n_expand_iter)
       IN  /\ prog_data' = out.prog_data
           /\ prog_nval' = out.prog_nval
           /\ prog_niter' = out.prog_niter
           /\ n_forecast' = out.n_forecast
           /\ raised' = out.raised
           /\ pc' = IF out.raised = "none" THEN "for_day" ELSE "raised"
           /\ i_day' = IF out.raised = "none" THEN i_day + 1 ELSE i_day
           /\ df_prog' = AfterArrayWrite(df_prog, ProgDataArray(df_prog), out.prog_data)
    /\ UNCHANGED <<evVars, smVars, encVars, holiday_sg, dtVars, self_forecast, callVars, df_hist, df_hist_0, df_prog_0,
                   params_dict, uniqueVars,
                   matcherVars, selVars, df_out, attempts, day_first>>

\* The for loop has ended: df_out is built and returned.
Return ==
    /\ pc = "for_day"
    /\ i_day = Len(prog_datehelper_unique)
    /\ df_out' = [i \in DOMAIN df_prog |->
                    [forecast |-> prog_data[i], nval |-> prog_nval[i], n_iter |-> prog_niter[i]]]
    /\ pc' = "done"
    /\ UNCHANGED <<evVars, smVars, encVars, holiday_sg, dtVars, self_forecast, callVars, raised, inputVars, params_dict,
                   uniqueVars, outVars, i_day, matcherVars, selVars, attempts, day_first>>

Next == Call \/ BeginDay \/ Attempt \/ SelectHours \/ WriteHours \/ Return

Spec == Init /\ [][Next]_vars

\* Specification SpecDays: get_vtv_forecast on histories of two days each:
\* two Mondays either side of the start of summer time, a Monday and a
\* Tuesday, two Sundays, and a Sunday of spring or a Monday of winter with
\* the last Sunday of summer time.
PairedDays ==
    { { Date(2023, 3, 20), Date(2023, 4, 10) },
      { Date(2023, 4, 4),  Date(2023, 4, 10) },
      { Date(2023, 4, 9),  Date(2023, 4, 17) },
      { Date(2023, 4, 9),  Date(2023, 10, 22) },
      { Date(2023, 3, 20), Date(2023, 10, 22) } }

InitDays == InitOn(PairedDays)

SpecDays == InitDays /\ [][Next]_vars

\* Specification SpecCalls: a sequence of calls of get_vtv_forecast on one
\* Forecaster, each with keyword arguments of its own, on the frames of a
\* Monday of winter time and Easter Monday.
CallDays == { { Date(2023, 3, 20), Date(2023, 4, 10) } }

InitCalls == InitOn(CallDays)

\* The next call on the same Forecaster and the same frames, once a call
\* has returned or raised: the locals of the ended call are gone, self.forecast
\* is the object it was.
CallAgain ==
    /\ pc \in {"done", "raised"}
    /\ overridden' = (overridden \/ kwargs # <<>>)
    /\ kwargs' = <<>>
    /\ pc' = "call"
    /\ raised' = "none"
    /\ params_dict' = DefaultForecast
    /\ prog_datehelper_unique' = <<>>
    /\ enc1_unique' = <<>>
    /\ enc2_unique' = <<>>
    /\ daytype_unique' = <<>>
    /\ prog_data' = <<>>
    /\ prog_nval' = <<>>
    /\ prog_niter' = <<>>
    /\ n_forecast' = 0
    /\ i_day' = 0
    /\ n_days' = 0
    /\ n_iter' = 0
    /\ n_expand_iter' = 0
    /\ window_size' = 0
    /\ dayshift' = 0
    /\ day_index' = <<>>
    /\ day_index_bound' = FALSE
    /\ prog_hours_sel' = <<>>
    /\ hist_hours_dst_adj' = <<>>
    /\ hist_data_sel' = <<>>
    /\ df_out' = <<>>
    /\ attempts' = <<>>
    /\ day_first' = 0
    /\ UNCHANGED <<evVars, smVars, encVars, holiday_sg, dtVars, self_forecast, inputVars>>

NextCalls == Next \/ CallAgain

SpecCalls == InitCalls /\ [][NextCalls]_vars

----------------------------------------------------------------------------
(* evaluate_forecast.  A timestamp of its frames is a number of minutes    *)
(* from 2022-01-01 00:00 UTC; a float is a reduced fraction, or Inf or NaN *)
(* where a division by 0.0 gives them.                                     *)


\* Timedelta.seconds: the seconds of a time difference of dm minutes that
\* remain after its whole days.
TimedeltaSeconds(dm) == (dm * 60) % 86400

\* A variant of the interval that assumes an hourly series when a frame is
\* too short to tell.
FreqOfGuessed(frame) ==
    IF Len(frame) < 2 THEN Fraction(1, 1)
    ELSE Fraction(TimedeltaSeconds(frame[2].t - frame[1].t), 3600)

\* (frame.index[1] - frame.index[0]).seconds / 3600, or the IndexError of
\* index[1] on a frame of fewer than two rows.
FreqOf(frame) ==
    IF Len(frame) < 2 THEN IndexError
    ELSE Fraction(TimedeltaSeconds(frame[2].t - frame[1].t), 3600)

\* a / b for a whole number a >= 0 and a float b >= 0: numpy gives inf or nan
\* for b = 0.0.
FloatDiv(a, b) ==
    IF b[1] = 0 THEN (IF a = 0 THEN NaN ELSE Inf)
    ELSE Fraction(a * b[2], b[1])

\* a == b on floats: nan equals nothing.
FloatEq(a, b) == a # NaN /\ b # NaN /\ a = b

\* df_forecast.index.year of a row.
YearOfRow(row) == YearOf(LocalDate("Europe/Zurich", row.t \div 60))

\* df_forecast.index.year.unique()
ForecastYears(frame) == { YearOfRow(frame[i]) : i \in DOMAIN frame }

\* frame.loc[frame.index.year == i_year]['forecast'].sum()
YearSum(frame, i_year) ==
    SumSeq([i \in DOMAIN frame |-> IF YearOfRow(frame[i]) = i_year THEN frame[i].v ELSE 0])

\* The next year the for loop of evaluate_forecast takes.
NextYear == CHOOSE y \in ForecastYears(ev_forecast) \ DOMAIN year_dict :
                \A z \in ForecastYears(ev_forecast) \ DOMAIN year_dict : y <= z

\* Sampling intervals of the frames, in minutes.
EvalSteps == {15, 60, 1440}

\* First timestamps of the frames: 2023-12-01 00:00 and 2023-12-31 22:00
\* local time, as minutes UTC.
EvalStarts == { (Date(2023, 12, 1) * 24 - 1) * 60, (Date(2023, 12, 31) * 24 + 21) * 60 }

\* Values of the frames' rows.
EvalValues == {0, 2}

ValueSeqs == UNION { [1 .. n -> EvalValues] : n \in 0 .. MaxEvalRows }

\* The frames given to evaluate_forecast: a first timestamp, an interval
\* and up to MaxEvalRows values.
EvalFrames ==
    { [i \in DOMAIN vals |-> [t |-> start + (i - 1) * step, v |-> vals[i]]] :
        start \in EvalStarts, step \in EvalSteps, vals \in ValueSeqs }

\* The variables of the day-type steps while they are not modelled.
DtIdle ==
    /\ dt_pc = "idle"
    /\ dt_dates = <<>>
    /\ weekday_array = <<>>
    /\ daytype_array = <<>>
    /\ holiday_array = <<>>
    /\ preholiday_array = <<>>
    /\ postholiday_array = <<>>

EvInit ==
    /\ holiday_sg = {}
    /\ DtIdle
    /\ FcIdle
    /\ SmIdle
    /\ EncIdle
    /\ ev_hist \in EvalFrames
    /\ ev_forecast \in EvalFrames
    /\ ev_pc = "freq_hist"
    /\ freq_hist = Unset
    /\ freq_prog = Unset
    /\ hist_work = Unset
    /\ year_dict = <<>>
    /\ ev_raised = "none"
    /\ output = "none"

\* freq_hist = (df_hist.index[1] - df_hist.index[0]).seconds / 3600
EvFreqHist ==
    /\ ev_pc = "freq_hist"
    /\ IF FreqOf(ev_hist) = IndexError
         THEN ev_raised' = "IndexError" /\ ev_pc' = "raised" /\ freq_hist' = freq_hist
         ELSE freq_hist' = FreqOf(ev_hist) /\ ev_pc' = "freq_prog" /\ ev_raised' = ev_raised
    /\ UNCHANGED <<smVars, encVars, holiday_sg, dtVars, fcVars, ev_hist, ev_forecast, freq_prog,
                   hist_work, year_dict, output>>

\* freq_prog = (df_forecast.index[1] - df_forecast.index[0]).seconds / 3600
EvFreqProg ==
    /\ ev_pc = "freq_prog"
    /\ IF FreqOf(ev_forecast) = IndexError
         THEN ev_raised' = "IndexError" /\ ev_pc' = "raised" /\ freq_prog' = freq_prog
         ELSE freq_prog' = FreqOf(ev_forecast) /\ ev_pc' = "hist_work" /\ ev_raised' = ev_raised
    /\ UNCHANGED <<smVars, encVars, holiday_sg, dtVars, fcVars, ev_hist, ev_forecast, freq_hist,
                   hist_work, year_dict, output>>

\* hist_work = df_hist['data'].sum() / freq_hist
EvHistWork ==
    /\ ev_pc = "hist_work"
    /\ hist_work' = FloatDiv(SumSeq([i \in DOMAIN ev_hist |-> ev_hist[i].v]), freq_hist)
    /\ ev_pc' = "for_year"
    /\ UNCHANGED <<smVars, encVars, holiday_sg, dtVars, fcVars, ev_hist, ev_forecast, freq_hist,
                   freq_prog, year_dict, ev_raised, output>>

\* One pass of the loop over the years of the forecast.
EvYear ==
    /\ ev_pc = "for_year"
    /\ ForecastYears(ev_forecast) \ DOMAIN year_dict # {}
    /\ year_dict' = year_dict @@
                      (NextYear :> FloatDiv(YearSum(ev_forecast, NextYear), freq_prog))
    /\ UNCHANGED <<smVars, encVars, holiday_sg, dtVars, fcVars, ev_pc, ev_hist, ev_forecast, freq_hist,
                   freq_prog, hist_work, ev_raised, output>>

\* output = {'hist_work': hist_work, 'prog_work': year_dict}; return output
EvReturn ==
    /\ ev_pc = "for_year"
    /\ ForecastYears(ev_forecast) \ DOMAIN year_dict = {}
    /\ output' = [hist_work |-> hist_work, prog_work |-> year_dict]
    /\ ev_pc' = "returned"
    /\ UNCHANGED <<smVars, encVars, holiday_sg, dtVars, fcVars, ev_hist, ev_forecast, freq_hist,
                   freq_prog, hist_work, year_dict, ev_raised>>

EvNext == EvFreqHist \/ EvFreqProg \/ EvHistWork \/ EvYear \/ EvReturn

SpecEval == EvInit /\ [][EvNext]_vars

----------------------------------------------------------------------------
(* Specification SpecProg: create_prog_strawman on spans around the two    *)
(* DST transitions of 2024 in Europe/Zurich.                               *)

\* A wall-clock <<date, hour>> as hours since the epoch date, and back.
WallHour(dh) == dh[1] * 24 + dh[2]

WallClock(wall) == <<wall \div 24, wall % 24>>

\* The timestamps at which the wall clock of Europe/Zurich shows the hour.
WallInstants(wall) ==
    { t \in (wall - 2) .. (wall - 1) : t + UtcOffset("Europe/Zurich", t) = wall }

\* Timestamp.tz_localize('Europe/Zurich', ambiguous='raise',
\* nonexistent='raise'), as pd.date_range applies it to a start or end
\* without timezone: the exception it raises, or "none".
TzLocalizeRaises(dh) ==
    IF WallInstants(WallHour(dh)) = {} THEN "NonExistentTimeError"
    ELSE IF Cardinality(WallInstants(WallHour(dh))) > 1 THEN "AmbiguousTimeError"
    ELSE "none"

\* The exception of pd.date_range: start is localized before end.
DateRangeRaises(dh_from, dh_to) ==
    IF TzLocalizeRaises(dh_from) # "none" THEN TzLocalizeRaises(dh_from)
    ELSE TzLocalizeRaises(dh_to)

SmDates == { Date(2024, 3, 30), Date(2024, 3, 31), Date(2024, 10, 26), Date(2024, 10, 27) }

SmHours == 0 .. 3

\* date_to minus date_from on the wall clock, in hours.
SmSpans == (-1 .. 3) \cup { 24 * d : d \in 1 .. MaxSpanDays }

SmInit ==
    /\ holiday_sg = {}
    /\ DtIdle
    /\ FcIdle
    /\ EvIdle
    /\ EncIdle
    /\ \E d \in SmDates, h \in SmHours, span \in SmSpans :
          /\ date_from = <<d, h>>
          /\ date_to = WallClock(WallHour(<<d, h>>) + span)
    /\ sm_pc = "date_range"
    /\ date_range = <<>>
    /\ dummy_data = <<>>
    /\ strawman = <<>>
    /\ sm_raised = "none"

\* date_range = pd.date_range(start=date_from, end=date_to,
\*                            inclusive='left', freq='1h', tz='Europe/Zurich')
SmDateRange ==
    /\ sm_pc = "date_range"
    /\ IF DateRangeRaises(date_from, date_to) # "none"
         THEN /\ sm_raised' = DateRangeRaises(date_from, date_to)
              /\ sm_pc' = "raised"
              /\ date_range' = date_range
         ELSE /\ date_range' = StrawmanIndex(LocalizeZurich(date_from[1], date_from[2]),
                                             LocalizeZurich(date_to[1], date_to[2]))
              /\ sm_pc' = "zeros"
              /\ sm_raised' = sm_raised
    /\ UNCHANGED <<encVars, holiday_sg, dtVars, fcVars, evVars, date_from, date_to, dummy_data, strawman>>

\* dummy_data = np.zeros(len(date_range))
SmZeros ==
    /\ sm_pc = "zeros"
    /\ dummy_data' = [i \in 1 .. Len(date_range) |-> Zero]
    /\ sm_pc' = "series"
    /\ UNCHANGED <<encVars, holiday_sg, dtVars, fcVars, evVars, date_from, date_to, date_range, strawman,
                   sm_raised>>

\* prog_data = pd.Series(data=dummy_data, index=date_range); return prog_data
SmSeries ==
    /\ sm_pc = "series"
    /\ strawman' = [i \in DOMAIN date_range |-> [t |-> date_range[i], v |-> dummy_data[i]]]
    /\ sm_pc' = "returned"
    /\ UNCHANGED <<encVars, holiday_sg, dtVars, fcVars, evVars, date_from, date_to, date_range, dummy_data,
                   sm_raised>>

SmNext == SmDateRange \/ SmZeros \/ SmSeries

SpecProg == SmInit /\ [][SmNext]_vars

----------------------------------------------------------------------------
(* Specification SpecEnc: the seasonal encodings of get_forecast_inputs    *)
(* for a historical date and a forecast date, and the interval conditions  *)
(* of one match attempt on them.                                           *)

\* Historical dates: every day of 2023.
EncHistDates == Date(2023, 1, 1) .. Date(2023, 12, 31)

\* Forecast dates: the first and the last day of 2026, the days either side
\* of the points at which an encoding turns, and the first day and the
\* middle of 2025, the year after a leap year.
EncProgDates ==
    { Date(2026, 1, 1), Date(2026, 4, 1), Date(2026, 4, 2), Date(2026, 7, 2),
      Date(2026, 10, 1), Date(2026, 12, 31), Date(2025, 1, 1), Date(2025, 7, 2) }

EncInit ==
    /\ holiday_sg = {}
    /\ DtIdle
    /\ FcIdle
    /\ EvIdle
    /\ SmIdle
    /\ enc_hist_date \in EncHistDates
    /\ enc_prog_date \in EncProgDates
    /\ enc_window \in 0 .. MaxEncWindow
    /\ enc_pc = "encode"
    /\ enc_hist = <<>>
    /\ enc_prog = <<>>
    /\ enc_match = FALSE

\* date_enc1 and date_enc2 of both dates.
EncEncode ==
    /\ enc_pc = "encode"
    /\ enc_hist' = [ daytype   |-> 0,
                     date_enc1 |-> DateEnc1(enc_hist_date),
                     date_enc2 |-> DateEnc2(enc_hist_date) ]
    /\ enc_prog' = [ daytype   |-> 0,
                     date_enc1 |-> DateEnc1(enc_prog_date),
                     date_enc2 |-> DateEnc2(enc_prog_date) ]
    /\ enc_pc' = "compare"
    /\ UNCHANGED <<holiday_sg, dtVars, fcVars, evVars, smVars, enc_hist_date, enc_prog_date,
                   enc_window, enc_match>>

\* The four interval conditions of day_index on the row.
EncCompare ==
    /\ enc_pc = "compare"
    /\ enc_match' = DayIndex(<<enc_hist>>, enc_prog.daytype, enc_prog.date_enc1,
                             enc_prog.date_enc2, enc_window, 0)[1]
    /\ enc_pc' = "done"
    /\ UNCHANGED <<holiday_sg, dtVars, fcVars, evVars, smVars, enc_hist_date, enc_prog_date,
                   enc_window, enc_hist, enc_prog>>

EncNext == EncEncode \/ EncCompare

SpecEnc == EncInit /\ [][EncNext]_vars

----------------------------------------------------------------------------
(* Properties of the day-type steps (specification SpecDT). *)

\* C6: every date that is a holiday gets the holiday code 16, whatever its
\* weekday and whether or not a neighbouring day is a holiday too.
C6_HolidayTakesPrecedence ==
    dt_pc = "done" =>
        \A i \in DOMAIN dt_dates :
            dt_dates[i] \in holiday_sg => daytype_array[i] = HolidayCode

\* C7: a Monday that is no holiday gets the pre-holiday code 10 exactly when
\* the day after it (the Tuesday) is a holiday.
C7_MondayBeforeHoliday ==
    dt_pc = "done" =>
        \A i \in DOMAIN dt_dates :
            (Weekday(dt_dates[i]) = 0 /\ dt_dates[i] \notin holiday_sg) =>
                (daytype_array[i] = PreHolidayCode <=> (dt_dates[i] + 1) \in holiday_sg)

\* C8: a Friday that is no holiday gets the post-holiday code 14 exactly when
\* the day before it (the Thursday) is a holiday.
C8_FridayAfterHoliday ==
    dt_pc = "done" =>
        \A i \in DOMAIN dt_dates :
            (Weekday(dt_dates[i]) = 4 /\ dt_dates[i] \notin holiday_sg) =>
                (daytype_array[i] = PostHolidayCode <=> (dt_dates[i] - 1) \in holiday_sg)

\* The day-type codes.
DayTypeCodes == (0 .. 6) \cup {PreHolidayCode, PostHolidayCode, HolidayCode}

\* Other input series with a row of date d: the date alone, the date twice
\* as in an hourly series, and the date among other dates.
SeriesWith(d) == { <<d>>, <<d, d>>, <<d - 1, d, d>>, <<d + 7, d, d + 1>> }

\* C20: the day-type code of a row is one of 0..6, 10, 14, 16 and depends on
\* the row's date and the holiday calendar only: computing the column again,
\* or for any row of the same date in another series, gives the same code.
C20_DayTypeIsFunctionOfDate ==
    dt_pc = "done" =>
        /\ daytype_array = DayTypeArray(dt_dates, holiday_sg)
        /\ \A i \in DOMAIN dt_dates :
              /\ daytype_array[i] \in DayTypeCodes
              /\ \A q \in SeriesWith(dt_dates[i]) :
                    \A j \in DOMAIN q :
                        q[j] = dt_dates[i] =>
                            DayTypeArray(q, holiday_sg)[j] = daytype_array[i]

\* A finished column with the code 10 on a row that is not the first, next
\* to a row of code 16.
C20_Witness ==
    /\ dt_pc = "done"
    /\ \E i \in DOMAIN dt_dates :
          /\ i > 1
          /\ daytype_array[i] = PreHolidayCode
          /\ daytype_array[i - 1] = HolidayCode

----------------------------------------------------------------------------
(* Properties of get_vtv_forecast (specification Spec). *)

\* The for loop is at a forecast day: i_day is that day's position and
\* attempts holds the match attempts made for it so far.
DayActive == pc \in {"while", "for_hour", "raised"}

\* The for loop has just finished a forecast day (the one before i_day):
\* the matcher's locals and the selections are still that day's.
DayWritten == pc \in {"for_day", "done"} /\ i_day > 0

\* The rows of the historical frame that the match rule of an attempt with
\* half-width a.window_size and dayshift a.dayshift selects for forecast
\* day number d (1-based) of the horizon.
RuleRows(d, a) ==
    { r \in DOMAIN df_hist :
        /\ df_hist[r].daytype = daytype_unique[d] - a.dayshift
        /\ Abs(df_hist[r].date_enc1 - enc1_unique[d]) <= a.window_size
        /\ Abs(df_hist[r].date_enc2 - enc2_unique[d]) <= a.window_size }

\* The rows a boolean mask selects.
Selected(mask) == { r \in DOMAIN mask : mask[r] }

\* C3: in each match attempt a historical row is selected if and only if its
\* day-type equals the target's day-type minus the dayshift and both circular
\* encodings lie within the window half-width of the target's, ends included.
C3_MatchRule ==
    (DayActive /\ attempts # <<>>) =>
        Selected(day_index) = RuleRows(i_day + 1, attempts[Len(attempts)])

\* An attempt that selected a row at exactly the window's edge, and left out
\* a row of the right day-type and first encoding for its second encoding.
C3_Witness ==
    /\ pc = "while"
    /\ attempts # <<>>
    /\ LET a == attempts[Len(attempts)]
       IN  /\ \E r \in Selected(day_index) :
                 Abs(df_hist[r].date_enc1 - enc1_unique[i_day + 1]) = a.window_size
           /\ \E r \in DOMAIN df_hist \ Selected(day_index) :
                 /\ df_hist[r].daytype = daytype_unique[i_day + 1] - a.dayshift
                 /\ Abs(df_hist[r].date_enc1 - enc1_unique[i_day + 1]) <= a.window_size

\* The match attempt whose rows the finished matcher hands on.
LastAttempt == attempts[Len(attempts)]

\* The positions of the output arrays the hour loop of the finished day wrote.
WrittenPositions == (day_first + 1) .. n_forecast

\* The matcher's locals at the end of the while loop of forecast day d
\* (1-based) under the configuration cfg.
FinalMatch(d, cfg) ==
    RunMatcher(DayStart(cfg, [day_index |-> <<>>, bound |-> FALSE]), cfg, df_hist,
               daytype_unique[d], enc1_unique[d], enc2_unique[d])

\* C1: a forecast day whose matcher ends with no matching historical row gets
\* forecast value 0 and nval 0 at every hourly row of that day in the
\* returned frame, and no error is raised for it.
C1_NoMatchRowsAreZero ==
    /\ pc = "done" =>
          \A d \in DOMAIN prog_datehelper_unique :
              (FinalMatch(d, params_dict).bound
                 /\ Selected(FinalMatch(d, params_dict).day_index) = {}) =>
                  \A i \in DOMAIN df_out :
                      df_prog[i].date_helper = prog_datehelper_unique[d] =>
                          df_out[i].forecast = Zero /\ df_out[i].nval = 0
    /\ (pc = "raised" /\ attempts # <<>>) => RuleRows(i_day + 1, LastAttempt) # {}

\* The summer time offset of forecast day d (1-based), read at its 03:00 row.
ProgOffsetOf(d) ==
    LET rows == { i \in DOMAIN df_prog :
                    /\ df_prog[i].date_helper = prog_datehelper_unique[d]
                    /\ df_prog[i].hours = 3 }
    IN  IF rows = {} THEN 0 ELSE df_prog[CHOOSE i \in rows : TRUE].summertime_offset

\* The local hour of historical row r aligned to a forecast day of summer
\* time offset po: the row's hour minus the difference of the two offsets,
\* -1 wrapping to 23.
AlignedHour(r, po) ==
    LET x == df_hist[r].hours - (df_hist[r].summertime_offset - po)
    IN  IF x = -1 THEN 23 ELSE x

RECURSIVE SumData(_)
SumData(R) ==
    IF R = {} THEN 0
    ELSE LET r == CHOOSE x \in R : TRUE IN df_hist[r].data + SumData(R \ {r})

\* C2: for every hour h of a forecast day, nval is the number of rows matched
\* under the final window whose aligned hour is h, and the forecast is the
\* arithmetic mean of their data values (0 when there is none).
C2_HourlyMean ==
    DayWritten =>
        /\ n_forecast - day_first = Len(prog_hours_sel)
        /\ LET matched == RuleRows(i_day, LastAttempt)
               po      == ProgOffsetOf(i_day)
           IN  \A k \in 1 .. Len(prog_hours_sel) :
                  LET p == day_first + k
                      R == { r \in matched : AlignedHour(r, po) = prog_hours_sel[k] }
                  IN  /\ prog_nval[p] = Cardinality(R)
                      /\ IF R = {} THEN prog_data[p] = Zero
                         ELSE /\ prog_data[p][2] > 0
                              /\ prog_data[p][1] * Cardinality(R) = prog_data[p][2] * SumData(R)

\* A finished day with an hour averaged over two rows to a value that is no
\* whole number, one of the rows shifted by an hour for summer time.
C2_Witness ==
    /\ DayWritten
    /\ \E p \in WrittenPositions : prog_nval[p] = 2 /\ prog_data[p][2] = 2
    /\ \E r \in RuleRows(i_day, LastAttempt) :
          df_hist[r].summertime_offset # ProgOffsetOf(i_day)

\* The number of earlier attempts of the active day under the same day-type
\* target as attempt k.
PhaseIndex(k) ==
    Cardinality({ j \in 1 .. (k - 1) : attempts[j].dayshift = attempts[k].dayshift })

\* Attempt k of the active day matched at least n_val_min rows.
Reached(k) == Cardinality(RuleRows(i_day + 1, attempts[k])) >= params_dict.n_val_min

\* The attempt whose rows the rule of C4 hands on: the first one that reached
\* n_val_min, the last one if none did.
UsedAttempt ==
    LET ok == { k \in DOMAIN attempts : Reached(k) }
    IN  IF ok = {} THEN Len(attempts) ELSE CHOOSE k \in ok : \A j \in ok : k <= j

\* At most n_iter_max attempts per day-type target, and the rows used are
\* those of the first attempt that reached n_val_min, else of the last.
AttemptsAndRowsUsed ==
    /\ \A k \in DOMAIN attempts : PhaseIndex(k) < params_dict.n_iter_max
    /\ pc = "for_hour" => Selected(day_index) = RuleRows(i_day + 1, attempts[UsedAttempt])

\* C4 as stated: the attempts under every day-type target use the windows
\* window_size, window_size + expand_step, ... of the configuration, at most
\* n_iter_max per target; the rows used are those of the first attempt that
\* reached n_val_min, else those of the last attempt.
C4_WindowsFromConfiguredSize ==
    (DayActive /\ attempts # <<>>) =>
        /\ \A k \in DOMAIN attempts :
              attempts[k].window_size =
                  params_dict.window_size + PhaseIndex(k) * params_dict.expand_step
        /\ AttemptsAndRowsUsed

\* C4 amended: the attempts under the configured day-type target use the
\* windows window_size + k * expand_step, those under the fallback target
\* use 10 + k * expand_step; at most n_iter_max per target; the rows used are
\* those of the first attempt that reached n_val_min, else those of the last.
C4_WindowsRestartAtTen ==
    (DayActive /\ attempts # <<>>) =>
        /\ \A k \in DOMAIN attempts :
              attempts[k].window_size =
                  (IF attempts[k].dayshift = params_dict.daytype_replace
                     THEN params_dict.window_size ELSE 10)
                  + PhaseIndex(k) * params_dict.expand_step
        /\ AttemptsAndRowsUsed

\* A day with a configured window of 13 whose attempts went through the
\* fallback target's windows 10 and 15 and ended with rows to use.
C4_Witness ==
    /\ pc = "for_hour"
    /\ params_dict.window_size = 13
    /\ \E k \in DOMAIN attempts :
          /\ attempts[k].dayshift # params_dict.daytype_replace
          /\ PhaseIndex(k) = 1
    /\ Selected(day_index) # {}

\* What the day-type fallback does when attempt k of the active day takes
\* it: the next attempt, or the matcher's locals if there is none, has
\* dayshift 10, window 10 and iteration counter 0, and the target becomes a
\* plain weekday code.
FallbackEffect(k) ==
    /\ daytype_unique[i_day + 1] \in {10, 14, 16}
    /\ attempts[k].dayshift = 0
    /\ daytype_unique[i_day + 1] - 10 \in {0, 4, 6}
    /\ IF k < Len(attempts)
         THEN /\ attempts[k + 1].dayshift = 10
              /\ attempts[k + 1].window_size = 10
              /\ attempts[k + 1].n_iter = 0
         ELSE dayshift = 10 /\ window_size = 10 /\ n_iter = 0

\* C5 as stated: the fallback is taken only for day-type 10, 14 or 16 with
\* dayshift still 0 after n_iter_max attempts that all failed to reach
\* n_val_min; it sets dayshift 10, window 10 and iteration counter 0, and is
\* taken at most once per forecast day.
C5_FallbackAfterFailedAttempts ==
    (DayActive /\ attempts # <<>>) =>
        /\ \A k \in DOMAIN attempts :
              attempts[k].fallback =>
                  /\ FallbackEffect(k)
                  /\ k = params_dict.n_iter_max
                  /\ \A j \in 1 .. k : ~Reached(j)
        /\ Cardinality({ k \in DOMAIN attempts : attempts[k].fallback }) <= 1

\* C5 amended: the fallback is taken only for day-type 10, 14 or 16 with
\* dayshift still 0 once n_iter_max attempts have been made, whether or not
\* the last of them reached n_val_min; it sets dayshift 10, window 10 and
\* iteration counter 0 and is taken at most once per forecast day; an attempt
\* under the fallback target is made only if all n_iter_max attempts failed.
C5_FallbackAfterMaxAttempts ==
    (DayActive /\ attempts # <<>>) =>
        /\ \A k \in DOMAIN attempts :
              attempts[k].fallback =>
                  /\ FallbackEffect(k)
                  /\ k = params_dict.n_iter_max
                  /\ \A j \in 1 .. (k - 1) : ~Reached(j)
        /\ Cardinality({ k \in DOMAIN attempts : attempts[k].fallback }) <= 1
        /\ \A k \in DOMAIN attempts :
              attempts[k].dayshift # params_dict.daytype_replace =>
                  \A j \in 1 .. (k - 1) : ~Reached(j)

\* A special day whose n_iter_max attempts failed, that took the fallback and
\* matched rows under the plain weekday target.
C5_Witness ==
    /\ pc = "for_hour"
    /\ Len(attempts) > params_dict.n_iter_max
    /\ params_dict.n_iter_max >= 2
    /\ attempts[params_dict.n_iter_max].fallback
    /\ Selected(day_index) # {}

\* The distinct historical days among the rows a mask selects.
DistinctDays(mask) == { df_hist[r].date_helper : r \in Selected(mask) }

\* C10: the matcher stops expanding the window, with iterations left, only
\* when the number of distinct matched historical days is at least n_val_min
\* (n_val_min >= 1, hourly historical data).
C10_StopsOnDistinctDays ==
    (pc = "for_hour" /\ attempts # <<>> /\ params_dict.n_val_min >= 1
       /\ n_iter < params_dict.n_iter_max) =>
        Cardinality(DistinctDays(day_index)) >= params_dict.n_val_min

\* Window sizes of the configurations compared with the one of the call.
AltWindows == {10, 13, 15}

\* The configuration of the call with another window_size.
WithWindow(w) == [params_dict EXCEPT !.window_size = w]

\* Whether the statements between the while loop and the end of the hour
\* loop raise for forecast day d when the matcher ended with locals m.
RaisesFor(m, d) ==
    LET po == ProgDstOffsetSel(df_prog, prog_datehelper_unique[d])
    IN  \/ ~m.bound
        \/ DstAdjustRaises(df_hist, m.day_index, po)
        \/ Len(HistHoursDstAdj(df_hist, m.day_index, po)) # CountTrue(m.day_index)

\* The sum of nval over the hours of forecast day d when the matcher ended
\* with locals m: the pairs of an hour of the day and a matched row aligned
\* to that hour.
NvalSumFor(m, d) ==
    LET po  == ProgDstOffsetSel(df_prog, prog_datehelper_unique[d])
        hs  == ProgHoursSel(df_prog, prog_datehelper_unique[d])
        adj == HistHoursDstAdj(df_hist, m.day_index, po)
    IN  Cardinality({ kj \in (DOMAIN hs) \X (DOMAIN adj) : adj[kj[2]] = hs[kj[1]] })

\* The matcher's outcome for forecast day d under window_size w satisfies
\* the day without an error and with a sum of nval of at least least.
AltAtLeast(m, d, least) == ~RaisesFor(m, d) /\ NvalSumFor(m, d) >= least

\* The sum of nval the hour loop of the finished day wrote.
WrittenNvalSum == SumSeq([k \in 1 .. (n_forecast - day_first) |-> prog_nval[day_first + k]])

\* C9 as stated: for a forecast day and two configurations that differ only
\* in window_size, w1 <= w2, the sum of nval over the day's hours under w2 is
\* at least the sum under w1.
C9_NvalSumMonotoneInWindow ==
    DayWritten =>
        \A w2 \in AltWindows :
            w2 >= params_dict.window_size =>
                LET m == FinalMatch(i_day, WithWindow(w2))
                IN  ~RaisesFor(m, i_day) => NvalSumFor(m, i_day) >= WrittenNvalSum

\* C9 amended: if the first match attempt under w1 already reaches n_val_min,
\* then for every w2 >= w1, all else equal, the day is forecast without an
\* error under w2 and its sum of nval is at least the sum under w1.
C9_NvalSumMonotoneWhenFirstWindowSuffices ==
    (DayWritten /\ Len(attempts) = 1
       /\ Cardinality(RuleRows(i_day, attempts[1])) >= params_dict.n_val_min) =>
        \A w2 \in AltWindows :
            w2 >= params_dict.window_size =>
                AltAtLeast(FinalMatch(i_day, WithWindow(w2)), i_day, WrittenNvalSum)

\* A finished day matched at the first attempt, for which a wider window
\* gives a larger sum of nval.
C9_Witness ==
    /\ DayWritten
    /\ Len(attempts) = 1
    /\ WrittenNvalSum >= params_dict.n_val_min
    /\ WrittenNvalSum > 0
    /\ \E w2 \in AltWindows :
          /\ w2 > params_dict.window_size
          /\ NvalSumFor(FinalMatch(i_day, WithWindow(w2)), i_day) > WrittenNvalSum

\* The position of matched row r among the matched rows, in ascending order.
RankOf(r) == Cardinality({ j \in Selected(day_index) : j <= r })

\* The hour of historical row r minus the difference of its summer time
\* offset and the forecast day's offset po, before any wrap.
ShiftedHour(r, po) == df_hist[r].hours - (df_hist[r].summertime_offset - po)

\* C11: after the difference of the summer time offsets is subtracted from a
\* matched row's hour, a result of -1 is mapped to 23 and every other result
\* is kept, and no aligned hour used for the comparison is negative.
C11_WrapToTwentyThree ==
    (pc = "for_hour" /\ Len(hist_hours_dst_adj) = Cardinality(Selected(day_index))) =>
        \A r \in Selected(day_index) :
            /\ hist_hours_dst_adj[RankOf(r)] >= 0
            /\ hist_hours_dst_adj[RankOf(r)] =
                  (IF ShiftedHour(r, ProgOffsetOf(i_day + 1)) = -1
                     THEN 23 ELSE ShiftedHour(r, ProgOffsetOf(i_day + 1)))

\* A forecast day in winter time with a matched row of summer time at hour 0,
\* whose shifted hour is -1.
C11_Witness ==
    /\ pc = "for_hour"
    /\ Len(hist_hours_dst_adj) = Cardinality(Selected(day_index))
    /\ \E r \in Selected(day_index) :
          /\ ShiftedHour(r, ProgOffsetOf(i_day + 1)) = -1
          /\ hist_hours_dst_adj[RankOf(r)] = 23

\* Every historical observation has the same value.
HistConstant ==
    df_hist # <<>> /\ \A r \in DOMAIN df_hist : df_hist[r].data = df_hist[1].data

\* The rows that contribute to the k-th hour of the finished day: those of
\* the matched rows that are aligned to that hour under the day's offset po.
Contributors(matched, po, k) ==
    { r \in matched : AlignedHour(r, po) = prog_hours_sel[k] }

----------------------------------------------------------------------------
(* Properties of get_vtv_forecast's frames (specification Spec). *)

\* C17: throughout a call of get_vtv_forecast both input frames are as they
\* were when it was called, the zero 'data' column of the forecast frame
\* included; the results are in the returned frame only, which has the
\* columns forecast, nval and n_iter over the forecast frame's index.
C17_InputFramesUnchanged ==
    /\ df_hist = df_hist_0
    /\ df_prog = df_prog_0
    /\ \A i \in DOMAIN df_prog : df_prog[i].data = Zero
    /\ pc = "done" =>
          /\ DOMAIN df_out = DOMAIN df_prog
          /\ \A i \in DOMAIN df_out :
                /\ DOMAIN df_out[i] = {"forecast", "nval", "n_iter"}
                /\ df_out[i].forecast = prog_data[i]
                /\ df_out[i].nval = prog_nval[i]
                /\ df_out[i].n_iter = prog_niter[i]

C17_Witness ==
    /\ pc = "done"
    /\ \E i \in DOMAIN df_out :
          /\ df_out[i].nval > 0
          /\ df_out[i].forecast # Zero
          /\ df_prog[i].data = Zero

\* The calendar days of the forecast horizon, as date_helper values.
HorizonDays == { df_prog[i].date_helper : i \in DOMAIN df_prog }

\* The rows of day d that carry the first-hour marker: date_helper_float
\* without fractional part.
MarkerRows(d) ==
    { i \in DOMAIN df_prog :
        /\ df_prog[i].date_helper = d
        /\ df_prog[i].date_helper_float % HourDivisor = 0 }

\* C18: every calendar day of the horizon, a partial first or last day
\* included, has exactly one row with the first-hour marker, and is
\* processed exactly once: it occurs once among the days the loop runs over,
\* and a call that returns has run over all of them.
C18_EveryDayProcessedOnce ==
    pc # "call" =>
        /\ \A d \in HorizonDays :
              /\ Cardinality(MarkerRows(d)) = 1
              /\ Cardinality({ k \in DOMAIN prog_datehelper_unique :
                                 prog_datehelper_unique[k] = d }) = 1
        /\ Len(prog_datehelper_unique) = Cardinality(HorizonDays)
        /\ pc = "done" => i_day = Len(prog_datehelper_unique)

\* The rows of the forecast frame that belong to forecast day d (1-based).
RowsOfDay(d) ==
    { i \in DOMAIN df_prog : df_prog[i].date_helper = prog_datehelper_unique[d] }

StartsAtMidnight == df_prog # <<>> /\ df_prog[1].hours = 0

\* C19: when the horizon starts at local hour 0, the hour loop of a day
\* writes exactly the rows of that day, the rows of later days still hold
\* their initial zeros, and a call that returns has written every row; each
\* row of the returned frame holds the count and the mean of the rows matched
\* for its calendar day whose aligned hour is the row's local hour, and the
\* number of window expansions of its day's matcher.
C19_RowsHoldTheirOwnHour ==
    /\ (DayWritten /\ StartsAtMidnight) =>
          /\ WrittenPositions = RowsOfDay(i_day)
          /\ \A k \in 1 .. Len(prog_hours_sel) :
                df_prog[day_first + k].hours = prog_hours_sel[k]
          /\ \A i \in DOMAIN df_prog :
                i > n_forecast =>
                    prog_data[i] = Zero /\ prog_nval[i] = 0 /\ prog_niter[i] = 0
    /\ (pc = "done" /\ StartsAtMidnight) =>
          /\ n_forecast = Len(df_prog)
          /\ \A d \in DOMAIN prog_datehelper_unique :
                LET fm      == FinalMatch(d, params_dict)
                    matched == Selected(fm.day_index)
                    po      == ProgOffsetOf(d)
                IN  \A i \in RowsOfDay(d) :
                       LET R == { r \in matched : AlignedHour(r, po) = df_prog[i].hours }
                       IN  /\ df_out[i].nval = Cardinality(R)
                           /\ df_out[i].n_iter = fm.n_expand_iter
                           /\ IF R = {} THEN df_out[i].forecast = Zero
                              ELSE /\ df_out[i].forecast[2] > 0
                                   /\ df_out[i].forecast[1] * Cardinality(R)
                                        = df_out[i].forecast[2] * SumData(R)

\* A returned frame over the 25 hours of 2024-10-27, whose two rows of local
\* hour 2 both hold a forecast from matched rows, as does the row of hour 3.
C19_Witness ==
    /\ pc = "done"
    /\ StartsAtMidnight
    /\ Len(df_out) = 25
    /\ df_prog[3].hours = 2 /\ df_prog[4].hours = 2 /\ df_prog[5].hours = 3
    /\ df_out[3].nval > 0 /\ df_out[4] = df_out[3] /\ df_out[5].nval > 0
    /\ df_out[3].forecast # Zero

----------------------------------------------------------------------------
(* Properties of the forecast days of get_vtv_forecast (specification      *)
(* SpecDays).                                                              *)

\* The matcher's locals before the first forecast day.
FreshLocals ==
    [ n_days |-> 0, n_iter |-> 0, n_expand_iter |-> 0, window_size |-> 0,
      dayshift |-> 0, day_index |-> <<>>, bound |-> FALSE ]

\* Forecast day d (1-based) computed on its own, from its day-type, its
\* encodings, the hours and the summer time offset of its rows, the
\* historical frame and the configuration: the matcher's locals at the end
\* of the while loop and the selections the hour loop works on.
DayAlone(d) ==
    LET date == prog_datehelper_unique[d]
        m    == RunMatcher(DayStart(params_dict, FreshLocals), params_dict, df_hist,
                           daytype_unique[d], enc1_unique[d], enc2_unique[d])
    IN  [ matcher   |-> m,
          hours_sel |-> ProgHoursSel(df_prog, date),
          data_sel  |-> MaskSelect(Column(df_hist, "data"), m.day_index),
          hours_adj |-> HistHoursDstAdj(df_hist, m.day_index,
                                        ProgDstOffsetSel(df_prog, date)) ]

\* C21: the rows matched for a forecast day, and the forecast, nval and
\* n_iter values its hour loop writes, are those of the day computed on its
\* own: nothing is carried over from the forecast days processed before it.
\* With n_val_min = 0 or n_iter_max = 0 no attempt is made and the call ends
\* at its first day, before any row is written.
C21_DayIndependentOfOtherDays ==
    /\ DayWritten =>
          LET alone == DayAlone(i_day)
          IN  /\ attempts # <<>>
              /\ Matcher = alone.matcher
              /\ n_forecast - day_first = Len(alone.hours_sel)
              /\ \A k \in 1 .. (n_forecast - day_first) :
                    LET sel == HistDataHSel(alone.data_sel, alone.hours_adj,
                                            alone.hours_sel[k])
                    IN  /\ prog_data[day_first + k] = MeanHourVal(sel)
                        /\ prog_nval[day_first + k] = Len(sel)
                        /\ prog_niter[day_first + k] = alone.matcher.n_expand_iter
    /\ (pc # "call" /\ (params_dict.n_val_min = 0 \/ params_dict.n_iter_max = 0)) =>
          /\ i_day = 0
          /\ n_forecast = 0
          /\ pc \in {"for_day", "while", "raised"}
          /\ pc = "raised" => raised = "UnboundLocalError"

\* The second day of a horizon is written from other rows than the first,
\* both with matches.
C21_Witness ==
    /\ DayWritten
    /\ i_day = 2
    /\ day_first > 0
    /\ n_days > 0
    /\ prog_nval[1] > 0
    /\ Selected(day_index) # RuleRows(1, [window_size |-> params_dict.window_size,
                                          dayshift    |-> params_dict.daytype_replace])
    /\ \E k \in WrittenPositions : prog_nval[k] > 0

\* The configuration lets the while loop run.
LoopRuns == params_dict.n_val_min >= 1 /\ params_dict.n_iter_max >= 1

\* The first attempt of the finished day matched at least n_val_min rows.
FirstWindowSuffices ==
    Cardinality(RuleRows(i_day, attempts[1])) >= params_dict.n_val_min

\* The finished day can take the day-type replacement.
CanFallBack ==
    daytype_unique[i_day] \in FallbackDayTypes /\ params_dict.daytype_replace = 0

C23_OneOffsetPerDay ==
    pc # "call" =>
        /\ \A d \in DOMAIN prog_datehelper_unique :
              Len(ProgDstOffsetSel(df_prog, prog_datehelper_unique[d])) = 1
        /\ raised # "ValueError"

----------------------------------------------------------------------------
(* Properties of the seasonal encodings (specification SpecEnc). *)

\* The distance of two dates on the circle of the 365 days of the year.
CircularDistance(a, b) ==
    LET diff == Abs(DayOfYear(a) - DayOfYear(b))
    IN  IF diff <= 365 - diff THEN diff ELSE 365 - diff

\* C24 as stated: for dates in non-leap years and a window of 0 to 45, the
\* interval conditions hold if and only if the circular day-of-year distance
\* of the two dates is at most the window.
C24_MatchIffCircularDistance ==
    enc_pc = "done" =>
        (enc_match <=> CircularDistance(enc_hist_date, enc_prog_date) <= enc_window)

\* The date from which date_enc2 is computed lies in a leap year.
ShiftedIntoLeapYear(date) == IsLeap(YearOf(date - EncShiftDays))

\* C24, amended: the same, for dates in non-leap years whose date 91 days
\* earlier does not lie in a leap year either.
C24_MatchIffCircularDistanceNoLeapShift ==
    (enc_pc = "done" /\ ~ShiftedIntoLeapYear(enc_hist_date)
                     /\ ~ShiftedIntoLeapYear(enc_prog_date)) =>
        (enc_match <=> CircularDistance(enc_hist_date, enc_prog_date) <= enc_window)

\* Dates either side of the turn of the year, eleven days apart, matched
\* within a window of eleven days.
C24_Witness ==
    /\ enc_pc = "done"
    /\ enc_prog_date = Date(2026, 1, 1)
    /\ enc_hist_date = Date(2023, 12, 21)
    /\ enc_window = 11
    /\ enc_match

\* C25: the hours of the matched rows, aligned to the forecast day's summer
\* time offset, all lie in 0..23.
C25_AlignedHoursInRange ==
    pc = "for_hour" =>
        \A k \in DOMAIN hist_hours_dst_adj : hist_hours_dst_adj[k] \in 0 .. 23

----------------------------------------------------------------------------
(* Termination of get_vtv_forecast (specification SpecDays). *)

\* The forecast day (1-based) whose attempts the variable attempts holds.
AttemptsDay == IF DayActive THEN i_day + 1 ELSE i_day

\* The most attempts the while loop makes for forecast day d.
MaxAttempts(d) ==
    IF daytype_unique[d] \in FallbackDayTypes
      THEN 2 * params_dict.n_iter_max
      ELSE params_dict.n_iter_max

AttemptsBounded == attempts # <<>> => Len(attempts) <= MaxAttempts(AttemptsDay)

\* More steps than one forecast day takes: the start of the day, its
\* attempts, the selection of the hours and the hour loop.
DaySteps(n_iter_max) == 2 * n_iter_max + 4

\* The largest n_iter_max a call can have.
LargestIterMax ==
    LET all == { ParamsDict(kw, self_forecast).n_iter_max : kw \in KwargSets }
    IN  CHOOSE n \in all : \A o \in all : o <= n

\* A bound on the steps the call has left: 0 when it has ended, and smaller
\* after every step.
StepsLeft ==
    LET days == Len(prog_datehelper_unique)
        cost == DaySteps(params_dict.n_iter_max)
    IN  CASE pc = "call"     -> Len(df_prog) * DaySteps(LargestIterMax) + 2
          [] pc = "for_day"  -> (days - i_day) * cost + 1
          [] pc = "while"    -> (days - i_day - 1) * cost + 3
                                  + MaxAttempts(i_day + 1) - Len(attempts)
          [] pc = "for_hour" -> (days - i_day - 1) * cost + 2
          [] OTHER           -> 0

\* C26: the while loop makes at most n_iter_max attempts for a day of
\* day-type 0..6 and at most 2 * n_iter_max for a day of day-type 10, 14 or
\* 16; every step of a call lowers the bound on the steps it has left, which
\* is never negative, so every call comes to an end; and a call that returns
\* has gone through each forecast day once.
C26_LoopAndCallTerminate ==
    /\ [](AttemptsBounded)
    /\ [](i_day <= Len(prog_datehelper_unique))
    /\ [](pc = "done" => i_day = Len(prog_datehelper_unique))
    /\ [][StepsLeft' < StepsLeft /\ StepsLeft' >= 0 /\ i_day' \in {i_day, i_day + 1}]_vars

\* The for loop has finished a day of day-type 10, 14 or 16 that took all of
\* its 2 * n_iter_max attempts, and the call goes on.
C26_Witness ==
    /\ DayWritten
    /\ params_dict.n_iter_max >= 1
    /\ daytype_unique[i_day] \in FallbackDayTypes
    /\ Len(attempts) = 2 * params_dict.n_iter_max
    /\ StepsLeft >= 0

----------------------------------------------------------------------------
(* The write counter of get_vtv_forecast (specification SpecDays). *)

\* The calendar days of the horizon that have a row of local hour 0.
DaysWithHourZero ==
    { df_prog[i].date_helper : i \in { j \in DOMAIN df_prog : df_prog[j].hours = 0 } }

\* The rows of the forecast frame that belong to the given calendar days.
RowsOfDates(dates) == { i \in DOMAIN df_prog : df_prog[i].date_helper \in dates }

\* The forecast days whose hour loop has run.
DaysDone == { prog_datehelper_unique[d] : d \in 1 .. i_day }

\* C27: on every hourly horizon the write counter n_forecast never exceeds
\* the number of rows of the forecast frame and no write lies past the end
\* of the output arrays; after each day's hour loop it is the number of rows
\* of the days processed so far, and when the call returns it is the number
\* of rows of the days that have a row of local hour 0.
C27_WriteCounterInBounds ==
    /\ raised # "IndexError"
    /\ pc # "call" =>
          /\ n_forecast <= Len(df_prog)
          /\ Len(prog_data) = Len(df_prog)
          /\ Len(prog_nval) = Len(df_prog)
          /\ Len(prog_niter) = Len(df_prog)
    /\ pc \in {"for_day", "done"} =>
          n_forecast = Cardinality(RowsOfDates(DaysDone))
    /\ pc = "for_hour" =>
          n_forecast + Len(prog_hours_sel) <= Len(df_prog)
    /\ pc = "done" =>
          n_forecast = Cardinality(RowsOfDates(DaysWithHourZero))

\* A returned call on the horizon that starts at 22:00: the 28 rows of its
\* two days with an hour 0 were written, in an output of 30 rows.
C27_Witness ==
    /\ pc = "done"
    /\ df_prog[1].hours = 22
    /\ n_forecast = 28
    /\ Len(prog_data) = 30

----------------------------------------------------------------------------
(* Matched rows and hourly counts (specification SpecDays). *)

\* The sum of nval over the rows the last hour loop wrote.
NvalOfDay == SumSeq([k \in 1 .. (n_forecast - day_first) |-> prog_nval[day_first + k]])

\* C28: after the hour loop of a forecast day, the sum of nval over the
\* day's rows is the number of matched historical rows: every matched row is
\* counted at exactly one forecast hour of the day.
C28_EveryMatchedRowCountedOnce ==
    DayWritten => NvalOfDay = Len(hist_data_sel)

----------------------------------------------------------------------------
(* The stored configuration over a sequence of calls (specification        *)
(* SpecCalls).                                                             *)

\* The parameters of the running call are the overrides it passed and the
\* defaults of __init__ for every other parameter.
ParamsAsPassed ==
    \A param \in DOMAIN DefaultForecast :
        params_dict[param] = IF param \in DOMAIN kwargs THEN kwargs[param]
                             ELSE DefaultForecast[param]

\* C30: over any sequence of calls of get_vtv_forecast with or without
\* overrides the stored configuration self.forecast stays the one of
\* __init__; every call uses its own overrides and the defaults for the
\* rest, so a call without overrides uses window_size 10, expand_step 5,
\* n_val_min 1, n_iter_max 4 and daytype_replace 0 whatever the calls before
\* it passed.
C30_OverridesStayInTheirCall ==
    /\ self_forecast = DefaultForecast
    /\ pc # "call" =>
          /\ ParamsAsPassed
          /\ kwargs = <<>> =>
                /\ params_dict.window_size = 10
                /\ params_dict.expand_step = 5
                /\ params_dict.n_val_min = 1
                /\ params_dict.n_iter_max = 4
                /\ params_dict.daytype_replace = 0

\* A call without overrides that returned, after an earlier call on the same
\* Forecaster had passed overrides.
C30_Witness ==
    /\ overridden
    /\ kwargs = <<>>
    /\ pc = "done"
    /\ params_dict = DefaultForecast
    /\ self_forecast = DefaultForecast

----------------------------------------------------------------------------
(* Properties of evaluate_forecast (specification SpecEval). *)

\* The sampling interval of a frame in hours: the full time difference of
\* its first two timestamps.
FullInterval(frame) == Fraction(frame[2].t - frame[1].t, 60)

\* The sum a divided by the interval b > 0, exactly.
ExactDiv(a, b) == Fraction(a * b[2], b[1])

\* C13: evaluate_forecast divides the sum of each series by that series' own
\* sampling interval in hours, the full time difference of its first two
\* timestamps (0.25, 1 or 24), the two intervals taken independently.
C13_DividesByFullInterval ==
    /\ hist_work # Unset =>
          hist_work = ExactDiv(SumSeq([i \in DOMAIN ev_hist |-> ev_hist[i].v]),
                               FullInterval(ev_hist))
    /\ \A y \in DOMAIN year_dict :
          year_dict[y] = ExactDiv(YearSum(ev_forecast, y), FullInterval(ev_forecast))

\* C14: for a forecast frame whose index and values are those of the
\* historical frame, all within one calendar year, the forecast aggregate
\* returned for that year equals the historical aggregate.
C14_ReplayedSeriesSameAggregate ==
    (ev_pc = "returned" /\ ev_forecast = ev_hist
       /\ Cardinality(ForecastYears(ev_forecast)) = 1) =>
        \A y \in ForecastYears(ev_forecast) :
            /\ y \in DOMAIN output.prog_work
            /\ FloatEq(output.prog_work[y], output.hist_work)

\* One of the two frames has fewer than two rows.
ShortFrame == Len(ev_hist) < 2 \/ Len(ev_forecast) < 2

\* C15: with a historical or a forecast frame of fewer than two rows
\* evaluate_forecast returns no result and computes no aggregate; it ends
\* in an IndexError.
C15_ShortFrameIsAnError ==
    ShortFrame =>
        /\ ev_pc \in {"freq_hist", "freq_prog", "raised"}
        /\ output = "none"
        /\ hist_work = Unset
        /\ year_dict = <<>>
        /\ ev_pc = "raised" => ev_raised = "IndexError"
        /\ Len(ev_hist) < 2 => freq_hist = Unset
        /\ freq_prog = Unset

\* A call that ended in the IndexError of the forecast frame's index[1],
\* after the historical interval had been computed.
C15_Witness ==
    /\ ev_pc = "raised"
    /\ ev_raised = "IndexError"
    /\ Len(ev_hist) >= 2
    /\ Len(ev_forecast) = 1
    /\ freq_hist # Unset

\* a + b on floats that are not negative: nan with a nan, inf with an inf.
FloatAdd(a, b) ==
    IF a = NaN \/ b = NaN THEN NaN
    ELSE IF a = Inf \/ b = Inf THEN Inf
    ELSE Fraction(a[1] * b[2] + b[1] * a[2], a[2] * b[2])

\* The sum of the aggregates that dict holds for the years of the set.
RECURSIVE FloatSumOver(_, _)
FloatSumOver(dict, years) ==
    IF years = {} THEN Zero
    ELSE LET y == CHOOSE z \in years : \A o \in years : z <= o
         IN  FloatAdd(dict[y], FloatSumOver(dict, years \ {y}))

\* C29: the aggregates of a returned result are those of the years of the
\* forecast's rows, every row belongs to exactly one of these years, and the
\* aggregates of all years add up to the sum of all forecast values divided
\* by the forecast's interval in hours.
C29_YearAggregatesPartition ==
    ev_pc = "returned" =>
        /\ DOMAIN output.prog_work = ForecastYears(ev_forecast)
        /\ \A i \in DOMAIN ev_forecast :
              Cardinality({ y \in DOMAIN output.prog_work : YearOfRow(ev_forecast[i]) = y }) = 1
        /\ FloatEq(FloatSumOver(output.prog_work, DOMAIN output.prog_work),
                   FloatDiv(SumSeq([i \in DOMAIN ev_forecast |-> ev_forecast[i].v]),
                            freq_prog))

----------------------------------------------------------------------------
(* Properties of create_prog_strawman (specification SpecProg). *)

\* The number of timestamps at which the Zurich wall clock shows an hour
\* from wall_from up to, not including, wall_to.
ElapsedHours(wall_from, wall_to) ==
    Cardinality({ t \in (wall_from - 2) .. (wall_to - 1) :
                    /\ wall_from <= t + UtcOffset("Europe/Zurich", t)
                    /\ t + UtcOffset("Europe/Zurich", t) < wall_to })

\* The rows a span of whole days has: 24 per day, one fewer when the span
\* contains the spring-forward day, one more when it contains the fall-back
\* day.
WholeDayRows(d_from, d_to) ==
    24 * (d_to - d_from)
      - (IF Date(2024, 3, 31) \in d_from .. (d_to - 1) THEN 1 ELSE 0)
      + (IF Date(2024, 10, 27) \in d_from .. (d_to - 1) THEN 1 ELSE 0)

SmTerminated == sm_pc \in {"returned", "raised"}

StrawmanAsClaimed ==
    /\ sm_pc = "returned"
    /\ Len(strawman) = ElapsedHours(WallHour(date_from), WallHour(date_to))
    /\ Len(strawman) >= 1
    /\ WallClock(strawman[1].t + UtcOffset("Europe/Zurich", strawman[1].t)) = date_from
    /\ \A i \in DOMAIN strawman :
          /\ strawman[i].v = Zero
          /\ strawman[i].t \notin WallInstants(WallHour(date_to))
          /\ \A e \in WallInstants(WallHour(date_to)) : strawman[i].t < e
          /\ i > 1 => strawman[i].t = strawman[i - 1].t + 1
    /\ (date_from[2] = 0 /\ date_to[2] = 0) =>
          Len(strawman) = WholeDayRows(date_from[1], date_to[1])

\* C16 as stated: every call with start < end returns a series that begins
\* at start, excludes end, steps by one elapsed hour, holds only zeros and
\* has one row per elapsed hour of the Zurich wall clock.
C16_AnySpanReturnsSeries ==
    (SmTerminated /\ WallHour(date_from) < WallHour(date_to)) => StrawmanAsClaimed

\* C16, amended: a call raises exactly when start or end is a wall-clock
\* hour that Europe/Zurich skips (NonExistentTimeError) or shows twice
\* (AmbiguousTimeError); every other call with start < end returns a series
\* that begins at start, excludes end, steps by one elapsed hour, holds only
\* zeros and has one row per elapsed hour, so 24 per day less one over the
\* spring-forward day and plus one over the fall-back day.
C16_ValidSpanReturnsSeries ==
    /\ SmTerminated =>
          (sm_pc = "raised" <=>
              \E dh \in {date_from, date_to} : Cardinality(WallInstants(WallHour(dh))) # 1)
    /\ sm_pc = "raised" =>
          /\ strawman = <<>>
          /\ sm_raised \in {"NonExistentTimeError", "AmbiguousTimeError"}
    /\ (sm_pc = "returned" /\ WallHour(date_from) < WallHour(date_to)) => StrawmanAsClaimed

C16_Witness ==
    /\ sm_pc = "returned"
    /\ date_from = <<Date(2024, 10, 26), 0>>
    /\ date_to = <<Date(2024, 10, 28), 0>>
    /\ Len(strawman) = 49
    /\ strawman[49].t + UtcOffset("Europe/Zurich", strawman[49].t) = WallHour(date_to) - 1

=============================================================================
